---- MODULE Spec2Model ----
(***************************************************************************)
(* A model of nocc: the daemon (client side) that dispatches compiler      *)
(* invocations to remote workers, and the worker (server side) that keeps  *)
(* per-client file state, a source cache and an object cache.              *)
(*                                                                         *)
(* Strings are sequences of bytes (ASCII codes), so that path.Base, the    *)
(* FNV-1a shard hash and the object-cache key are computed, not assumed.   *)
(*                                                                         *)
(* Three specifications share the module:                                  *)
(*   SpecShard  - worker selection by file name hash (daemon.go)           *)
(*   SpecDaemon - life of an invocation inside the daemon                  *)
(*   SpecServer - sessions, file states and caches on one worker           *)
(***************************************************************************)
EXTENDS Integers, Sequences, FiniteSets, TLC

(***************************************************************************)
(* Bounds of the model.                                                    *)
(***************************************************************************)
MaxWorkers == 3
NumShardInv == 2

(***************************************************************************)
(* Bytes, bits and strings.                                                *)
(***************************************************************************)
RECURSIVE XorBits(_, _, _)
\* bitwise XOR of two naturals below 2^n
XorBits(a, b, n) ==
    IF n = 0 THEN 0
    ELSE (((a % 2) + (b % 2)) % 2) + (2 * XorBits(a \div 2, b \div 2, n - 1))

RECURSIVE Concat(_)
\* the bytes of a list of strings written one after another
Concat(strs) == IF strs = <<>> THEN <<>> ELSE Head(strs) \o Concat(Tail(strs))


RECURSIVE StripTrailingSlashes(_)
StripTrailingSlashes(p) ==
    IF Len(p) > 0 /\ p[Len(p)] = 47
    THEN StripTrailingSlashes(SubSeq(p, 1, Len(p) - 1))
    ELSE p

RECURSIVE AfterLastSlash(_)
AfterLastSlash(p) ==
    IF \E k \in 1..Len(p) : p[k] = 47
    THEN AfterLastSlash(Tail(p))
    ELSE p

\* path.Base / filepath.Base of the Go library: the last element of the path
Base(p) ==
    IF p = <<>> THEN <<46>>
    ELSE LET q == StripTrailingSlashes(p)
         IN  IF q = <<>> THEN <<47>> ELSE AfterLastSlash(q)

(***************************************************************************)
(* hash/fnv New32a: 32-bit FNV-1a.  A 32-bit word is kept as two 16-bit    *)
(* halves [hi, lo]: the products of the hash do not fit the checker's      *)
(* integers otherwise.                                                     *)
(***************************************************************************)
Fnv32Offset == [hi |-> 33052, lo |-> 40389]          \* 0x811C9DC5

\* h * 16777619 mod 2^32, with 16777619 = 2^24 + 403
Fnv32MulPrime(h) ==
    LET low  == h.lo * 403
        carry == low \div 65536
    IN  [hi |-> (((h.lo % 256) * 256) + (h.hi * 403) + carry) % 65536,
         lo |-> low % 65536]

Fnv32Step(h, byte) ==
    Fnv32MulPrime([hi |-> h.hi,
                   lo |-> ((h.lo \div 256) * 256) + XorBits(h.lo % 256, byte, 8)])

RECURSIVE Fnv32aFrom(_, _)
Fnv32aFrom(h, bytes) ==
    IF bytes = <<>> THEN h ELSE Fnv32aFrom(Fnv32Step(h, Head(bytes)), Tail(bytes))

\* hasher := fnv.New32a(); hasher.Write(bytes); hasher.Sum32()
Sum32(bytes) == Fnv32aFrom(Fnv32Offset, bytes)

\* int(x) % n for a uint32 x on a build whose int has 64 bits: the value is
\* kept, so the remainder is the remainder of the unsigned value
IntMod(x, n) == (((x.hi % n) * (65536 % n)) + x.lo) % n

\* the same conversion on a build whose int has 32 bits: values from 2^31
\* wrap to negative, and Go's % keeps the sign of the dividend
IntMod32(x, n) ==
    IF x.hi < 32768 THEN IntMod(x, n)
    ELSE 0 - (((((65536 % n) * (65536 % n)) % n) + n - IntMod(x, n)) % n)

\* a variant that hashes the whole path (used to show that the claim about
\* the base name depends on filepath.Base)
ShardIndexOfFullPath(cppInFile, n) == IntMod(Sum32(cppInFile), n)

\* a variant with a 32-bit int conversion
ShardIndexInt32(cppInFile, n) == IntMod32(Sum32(Base(cppInFile)), n)

\* Daemon.chooseRemoteConnectionForCppCompilation: the index into
\* daemon.remoteConnections
ChooseRemoteIndex(cppInFile, n) == IntMod(Sum32(Base(cppInFile)), n)

(***************************************************************************)
(* Input files of the shard model.                                         *)
(***************************************************************************)
PathAFoo  == <<47, 97, 47, 102, 111, 111, 46, 99, 112, 112>>       \* /a/foo.cpp
PathBFoo  == <<47, 98, 47, 102, 111, 111, 46, 99, 112, 112>>       \* /b/foo.cpp
PathABar  == <<47, 97, 47, 98, 97, 114, 46, 99, 112, 112>>         \* /a/bar.cpp
PathBCBar == <<47, 98, 47, 99, 47, 98, 97, 114, 46, 99, 112, 112>> \* /b/c/bar.cpp
PathAA    == <<47, 97, 47, 97>>                                    \* /a/a
PathBA    == <<47, 98, 47, 97>>                                    \* /b/a
PathMainC == <<47, 109, 97, 105, 110, 46, 99>>                     \* /main.c
ShardPaths == {PathAFoo, PathBFoo, PathABar, PathBCBar, PathAA, PathBA, PathMainC}

(***************************************************************************)
(* The object-cache key.  sha256 is replaced by a small digest with the    *)
(* same shape: a function of the bytes written to the hasher, cut into the *)
(* four segments of common.SHA256, each 16 bits wide here instead of 64.   *)
(***************************************************************************)
RECURSIVE DigestFrom(_, _, _)
DigestFrom(h, mul, bytes) ==
    IF bytes = <<>> THEN h
    ELSE DigestFrom(((h * mul) + Head(bytes)) % 65536, mul, Tail(bytes))

\* sha256.New() ... hasher.Sum(nil), and common.MakeSHA256Struct
MakeSHA256Struct(written) ==
    [B0_7   |-> DigestFrom(7, 31, written),
     B8_15  |-> DigestFrom(11, 37, written),
     B16_23 |-> DigestFrom(13, 41, written),
     B24_31 |-> DigestFrom(17, 43, written)]

EmptySHA256 == [B0_7 |-> 0, B8_15 |-> 0, B16_23 |-> 0, B24_31 |-> 0]

\* SHA256.IsEmpty
IsEmpty(h) == h.B0_7 = 0 /\ h.B8_15 = 0 /\ h.B16_23 = 0 /\ h.B24_31 = 0

\* SHA256.XorWith
XorWith(h, other) ==
    [B0_7   |-> XorBits(h.B0_7, other.B0_7, 16),
     B8_15  |-> XorBits(h.B8_15, other.B8_15, 16),
     B16_23 |-> XorBits(h.B16_23, other.B16_23, 16),
     B24_31 |-> XorBits(h.B24_31, other.B24_31, 16)]

\* the loop over sessionFiles in MakeObjCacheKey
RECURSIVE XorSessionFiles(_, _)
XorSessionFiles(h, sessionFiles) ==
    IF sessionFiles = <<>> THEN h
    ELSE LET file == Head(sessionFiles)
             x == XorWith(h, file.fileSHA256)
         IN XorSessionFiles(
                [x EXCEPT !.B0_7 = XorBits(x.B0_7, file.fileSize % 65536, 16)],
                Tail(sessionFiles))

\* MakeObjCacheKey from what was written to the hasher
ObjCacheKeyOf(written, compilerArgs, sessionFiles) ==
    LET sum == MakeSHA256Struct(written)
        counted == [sum EXCEPT
                       !.B8_15 = XorBits(sum.B8_15, Len(compilerArgs), 16),
                       !.B16_23 = XorBits(sum.B16_23, Len(sessionFiles), 16)]
    IN XorSessionFiles(counted, sessionFiles)

\* a variant of the key that hashes the full path of the input file
MakeObjCacheKeyFullPath(compilerName, compilerArgs, sessionFiles, cppInFile) ==
    ObjCacheKeyOf(compilerName \o Concat(compilerArgs) \o cppInFile,
                  compilerArgs, sessionFiles)

\* ObjFileCache.MakeObjCacheKey
MakeObjCacheKey(compilerName, compilerArgs, sessionFiles, cppInFile) ==
    ObjCacheKeyOf(compilerName \o Concat(compilerArgs) \o Base(cppInFile),
                  compilerArgs, sessionFiles)

(***************************************************************************)
(* The command line as the daemon parses it: what it sends as CompilerArgs *)
(* and InputFile of StartCompilationSession.                               *)
(***************************************************************************)
HasPrefix(s, prefix) ==
    Len(s) >= Len(prefix) /\ SubSeq(s, 1, Len(prefix)) = prefix

HasSuffix(s, suffix) ==
    Len(s) >= Len(suffix)
        /\ SubSeq(s, (Len(s) - Len(suffix)) + 1, Len(s)) = suffix

\* pathAbs, for paths that filepath.Clean leaves as they are
pathAbs(cwd, relPath) ==
    IF relPath[1] = 47 THEN relPath ELSE cwd \o <<47>> \o relPath

ArgC       == <<45, 99>>                                   \* -c
ArgO       == <<45, 111>>                                  \* -o
ArgO2      == <<45, 79, 50>>                               \* -O2
ArgI       == <<45, 73>>                                   \* -I
ArgIquote  == <<45, 105, 113, 117, 111, 116, 101>>         \* -iquote
ArgIsystem == <<45, 105, 115, 121, 115, 116, 101, 109>>    \* -isystem
ArgE == <<45, 69>>                                         \* -E
ArgIDash == <<45, 73, 45>>                                 \* -I-
ArgMarchNative == <<45, 109, 97, 114, 99, 104, 61, 110, 97, 116, 105, 118, 101>> \* -march=native
ArgM == <<45, 77>>                                         \* -M
ArgMM == <<45, 77, 77>>                                    \* -MM
ArgMG == <<45, 77, 71>>                                    \* -MG
ArgMD == <<45, 77, 68>>                                    \* -MD
ArgMMD == <<45, 77, 77, 68>>                               \* -MMD
ArgMP == <<45, 77, 80>>                                    \* -MP
ArgMF == <<45, 77, 70>>                                    \* -MF
ArgMT == <<45, 77, 84>>                                    \* -MT
ArgMQ == <<45, 77, 81>>                                    \* -MQ
ArgX == <<45, 120>>                                        \* -x
ArgXclang == <<45, 88, 99, 108, 97, 110, 103>>             \* -Xclang
ArgIncludePch == <<45, 105, 110, 99, 108, 117, 100, 101, 45, 112, 99, 104>> \* -include-pch
ArgInclude == <<45, 105, 110, 99, 108, 117, 100, 101>>     \* -include
ArgFSeedFile == <<45, 102, 114, 97, 110, 100, 111, 109, 105, 122, 101, 45, 108, 97, 121, 111, 117, 116, 45, 115, 101, 101, 100, 45, 102, 105, 108, 101, 61>> \* -frandomize-layout-seed-file=
ArgWp == <<45, 87, 112>>                                   \* -Wp
DevNull == <<47, 100, 101, 118, 47, 110, 117, 108, 108>>   \* /dev/null
DotSlash == <<46, 47>>                                     \* ./
DotDotSlash == <<46, 46, 47>>                              \* ../
RelFooO == <<102, 111, 111, 46, 111>>                      \* foo.o
RelFooD == <<102, 111, 111, 46, 100>>                      \* foo.d
RelXH == <<120, 46, 104>>                                  \* x.h
TargetT == <<116, 46, 111>>                                \* t.o
TargetDollar == <<36, 117>>                                \* $u
ArgWpMD == <<45, 87, 112, 44, 45, 77, 68, 44, 102, 111, 111, 46, 100>> \* -Wp,-MD,foo.d
ArgWpE == <<45, 87, 112, 44, 45, 69>>                      \* -Wp,-E
LangCxxHeader == <<99, 43, 43, 45, 104, 101, 97, 100, 101, 114>> \* c++-header
LangCxx == <<99, 43, 43>>                                  \* c++
RelConftest == <<99, 111, 110, 102, 116, 101, 115, 116, 46, 99>> \* conftest.c
\* the values of -x that ask for a precompiled header
headerLanguages ==
    { <<99, 45, 104, 101, 97, 100, 101, 114>>,
      <<99, 43, 43, 45, 104, 101, 97, 100, 101, 114>>,
      <<111, 98, 106, 101, 99, 116, 105, 118, 101, 45, 99, 45, 104, 101, 97, 100, 101, 114>>,
      <<111, 98, 106, 101, 99, 116, 105, 118, 101, 45, 99, 43, 43, 45, 104, 101, 97, 100, 101, 114>> }
\* the suffixes of isSourceFileName: C, C++, Objective-C, Objective-C++
sourceFileSuffixes ==
    { <<46, 99>>,
      <<46, 105>>,
      <<46, 99, 112, 112>>,
      <<46, 99, 120, 120>>,
      <<46, 99, 99>>,
      <<46, 67>>,
      <<46, 67, 67>>,
      <<46, 99, 112>>,
      <<46, 67, 80, 80>>,
      <<46, 99, 43, 43>>,
      <<46, 67, 43, 43>>,
      <<46, 67, 88, 88>>,
      <<46, 105, 105>>,
      <<46, 83>>,
      <<46, 115>>,
      <<46, 109>>,
      <<46, 109, 105>>,
      <<46, 109, 109>>,
      <<46, 77>>,
      <<46, 109, 105, 105>> }
\* the suffixes of isHeaderFileName
headerFileSuffixes ==
    { <<46, 104>>,
      <<46, 72>>,
      <<46, 104, 104>>,
      <<46, 104, 120, 120>>,
      <<46, 104, 112, 112>> }
\* determineLocalCompiling: what the working directory of a configure test contains
localCwdMarks ==
    { <<84, 114, 121, 67, 111, 109, 112, 105, 108, 101, 45>>,
      <<109, 101, 115, 111, 110, 45, 112, 114, 105, 118, 97, 116, 101>>,
      <<46, 99, 111, 110, 102, 95, 99, 104, 101, 99, 107>> }
\* determineLocalCompiling: what the input file of a configure test contains
localArgMarks ==
    { <<102, 102, 99, 111, 110, 102, 46>>,
      <<99, 103, 111, 45, 103, 99, 99, 45, 105, 110, 112, 117, 116>> }
ConftestPrefix == <<99, 111, 110, 102, 116, 101, 115, 116>>
TmpConftestPrefix == <<116, 109, 112, 46, 99, 111, 110, 102, 116, 101, 115, 116, 46>>
\* what SetCmdFlagMT puts between two targets: space, backslash, newline, space
MTSeparator == <<32, 92, 10, 32>>

\* includefolderKeys of parseIncludeArgs, in its order
includefolderKeys == <<ArgI, ArgIquote, ArgIsystem>>

\* isSourceFileName
isSourceFileName(fileName) ==
    \E suffix \in sourceFileSuffixes : HasSuffix(fileName, suffix)

\* parseIncludeArgs over includefolderKeys from key number k on: the
\* arguments to append and how many arguments of the command line were
\* consumed, or no arguments when no key matches (parseArgFile)
RECURSIVE parseIncludeArgs(_, _, _, _)
parseIncludeArgs(cwd, cmdLine, i, k) ==
    IF k > Len(includefolderKeys) THEN [args |-> <<>>, used |-> 0]
    ELSE LET key == includefolderKeys[k]
             arg == cmdLine[i]
         IN IF arg = key /\ i + 1 <= Len(cmdLine)
            THEN [args |-> <<key, pathAbs(cwd, cmdLine[i + 1])>>, used |-> 2]
            ELSE IF arg # key /\ HasPrefix(arg, key)
            THEN [args |-> <<key, pathAbs(cwd,
                                SubSeq(arg, Len(key) + 1, Len(arg)))>>,
                  used |-> 1]
            ELSE parseIncludeArgs(cwd, cmdLine, i, k + 1)

\* Invocation.ParseCmdLineInvocation from argument i on: compilerArgs
RECURSIVE ParseCompilerArgs(_, _, _)
ParseCompilerArgs(cwd, cmdLine, i) ==
    IF i > Len(cmdLine) THEN <<>>
    ELSE LET arg == cmdLine[i]
             inc == parseIncludeArgs(cwd, cmdLine, i, 1)
         IN IF arg = <<>> THEN ParseCompilerArgs(cwd, cmdLine, i + 1)
            ELSE IF arg[1] = 45
            THEN IF arg = ArgC THEN ParseCompilerArgs(cwd, cmdLine, i + 1)
                 ELSE IF arg = ArgO /\ i + 1 <= Len(cmdLine)
                 THEN ParseCompilerArgs(cwd, cmdLine, i + 2)
                 ELSE IF inc.used > 0
                 THEN inc.args \o ParseCompilerArgs(cwd, cmdLine, i + inc.used)
                 ELSE <<arg>> \o ParseCompilerArgs(cwd, cmdLine, i + 1)
            ELSE IF isSourceFileName(arg)
            THEN ParseCompilerArgs(cwd, cmdLine, i + 1)
            ELSE <<arg>> \o ParseCompilerArgs(cwd, cmdLine, i + 1)

\* Invocation.ParseCmdLineInvocation: cppInFile
RECURSIVE ParseCppInFile(_, _, _)
ParseCppInFile(cwd, cmdLine, i) ==
    IF i > Len(cmdLine) THEN <<>>
    ELSE IF cmdLine[i] # <<>> /\ cmdLine[i][1] # 45
            /\ isSourceFileName(cmdLine[i])
            /\ (i = 1 \/ cmdLine[i - 1] \notin {ArgO, ArgI, ArgIquote, ArgIsystem})
    THEN pathAbs(cwd, cmdLine[i])
    ELSE ParseCppInFile(cwd, cmdLine, i + 1)

\* the arguments of a compiler command line without its include-path
\* arguments: the keys of includefolderKeys and the directory after each
RECURSIVE WithoutIncludePaths(_)
WithoutIncludePaths(compilerArgs) ==
    IF compilerArgs = <<>> THEN <<>>
    ELSE IF Head(compilerArgs) \in {ArgI, ArgIquote, ArgIsystem}
            /\ Len(compilerArgs) >= 2
    THEN WithoutIncludePaths(Tail(Tail(compilerArgs)))
    ELSE <<Head(compilerArgs)>> \o WithoutIncludePaths(Tail(compilerArgs))

(***************************************************************************)
(* Invocation.ParseCmdLineInvocation in full: the type of an invocation,   *)
(* its error, its files, its arguments and its dependency flags.           *)
(***************************************************************************)
invokedUnsupported       == "invokedUnsupported"
invokedForLocalCompiling == "invokedForLocalCompiling"
invokedForCompilingCpp   == "invokedForCompilingCpp"
invokedForCompilingPch   == "invokedForCompilingPch"
invokedForLinking        == "invokedForLinking"

\* strings.Contains
Contains(s, substr) ==
    \E k \in 1..((Len(s) - Len(substr)) + 1) :
        SubSeq(s, k, (k + Len(substr)) - 1) = substr

\* strings.Split(s, ","): the pieces of s between its commas
RECURSIVE SplitAtCommas(_, _)
SplitAtCommas(s, piece) ==
    IF s = <<>> THEN <<piece>>
    ELSE IF Head(s) = 44 THEN <<piece>> \o SplitAtCommas(Tail(s), <<>>)
    ELSE SplitAtCommas(Tail(s), Append(piece, Head(s)))

\* isHeaderFileName
isHeaderFileName(fileName) ==
    \E suffix \in headerFileSuffixes : HasSuffix(fileName, suffix)

\* common.ReplaceFileExt of a file name that has an extension
RECURSIVE ReplaceFileExt(_, _)
ReplaceFileExt(fileName, ext) ==
    IF fileName = <<>> THEN ext
    ELSE IF fileName[Len(fileName)] = 46
    THEN SubSeq(fileName, 1, Len(fileName) - 1) \o ext
    ELSE ReplaceFileExt(SubSeq(fileName, 1, Len(fileName) - 1), ext)

\* DepCmdFlags of an invocation before its command line is parsed
NoDepCmdFlags ==
    [flagMF |-> <<>>, flagMT |-> <<>>, flagMD |-> FALSE, flagMMD |-> FALSE,
     flagMP |-> FALSE]

\* quoteMakefileTarget: a tab gets a backslash (and as many more as
\* backslashes precede it), `$` is doubled, `#` gets a backslash; the case of
\* the space is empty and adds nothing
RECURSIVE PrecedingBackslashes(_, _)
PrecedingBackslashes(targetName, j) ==
    IF j >= 1 /\ targetName[j] = 92
    THEN <<92>> \o PrecedingBackslashes(targetName, j - 1)
    ELSE <<>>

RECURSIVE quoteMakefileTargetFrom(_, _)
quoteMakefileTargetFrom(targetName, i) ==
    IF i > Len(targetName) THEN <<>>
    ELSE LET c == targetName[i]
             escape == IF c = 9
                       THEN PrecedingBackslashes(targetName, i - 1) \o <<92>>
                       ELSE IF c = 36 THEN <<36>>
                       ELSE IF c = 35 THEN <<92>>
                       ELSE <<>>
         IN escape \o <<c>> \o quoteMakefileTargetFrom(targetName, i + 1)

quoteMakefileTarget(targetName) == quoteMakefileTargetFrom(targetName, 1)

\* DepCmdFlags.SetCmdFlagMT
SetCmdFlagMT(deps, mtTarget) ==
    [deps EXCEPT !.flagMT =
        (IF Len(@) > 0 THEN @ \o MTSeparator ELSE @) \o mtTarget]

\* DepCmdFlags.SetCmdFlagMQ
SetCmdFlagMQ(deps, mqTarget) ==
    [deps EXCEPT !.flagMT =
        (IF Len(@) > 0 THEN @ \o MTSeparator ELSE @)
            \o quoteMakefileTarget(mqTarget)]

\* CreateInvocation: the fields that ParseCmdLineInvocation fills
CreateInvocation(cwd) ==
    [cwd |-> cwd, invokeType |-> invokedUnsupported, err |-> "",
     panic |-> FALSE, hascOption |-> FALSE, cppInFile |-> <<>>,
     objOutFile |-> <<>>, compilerArgs |-> <<>>, depsFlags |-> NoDepCmdFlags]

\* Invocation.parseArgFile: `key value` (the value after -Xclang if that
\* follows the key) or `keyvalue`; next is the argument the value was read
\* from; a key that ends the arguments sets invocation.err and finds nothing
parseArgFile(args, key, i) ==
    LET arg == args[i]
        nothing == [found |-> FALSE, args |-> <<>>, value |-> <<>>,
                    next |-> i, err |-> FALSE, panic |-> FALSE]
    IN IF arg = key
       THEN IF i + 1 <= Len(args)
            THEN IF args[i + 1] = ArgXclang
                 THEN IF i + 2 <= Len(args)
                      THEN [nothing EXCEPT !.found = TRUE,
                                !.args = <<key, ArgXclang>>,
                                !.value = args[i + 2], !.next = i + 2]
                      ELSE [nothing EXCEPT !.panic = TRUE]
                 ELSE [nothing EXCEPT !.found = TRUE, !.args = <<key>>,
                                      !.value = args[i + 1], !.next = i + 1]
            ELSE [nothing EXCEPT !.err = TRUE]
       ELSE IF HasPrefix(arg, key)
       THEN [nothing EXCEPT !.found = TRUE, !.args = <<key>>,
                            !.value = SubSeq(arg, Len(key) + 1, Len(arg))]
       ELSE nothing

\* the keys of parseIncludeArgs and parseFOption in the order they are tried,
\* each with what is done to its value
includeKeys ==
    << [key |-> ArgI, file |-> FALSE], [key |-> ArgIquote, file |-> FALSE],
       [key |-> ArgIsystem, file |-> FALSE],
       [key |-> ArgIncludePch, file |-> TRUE],
       [key |-> ArgInclude, file |-> TRUE],
       [key |-> ArgFSeedFile, file |-> FALSE] >>

\* Invocation.parseIncludeArgs followed by Invocation.parseFOption, from key
\* number k on: the first key that parseArgFile finds, with the arguments to
\* append; noArg tells that a key ended the arguments
RECURSIVE parseIncludeOrFOption(_, _, _, _)
parseIncludeOrFOption(cwd, args, i, k) ==
    IF k > Len(includeKeys)
    THEN [found |-> FALSE, args |-> <<>>, next |-> i, noArg |-> FALSE,
          panic |-> FALSE]
    ELSE LET res == parseArgFile(args, includeKeys[k].key, i)
             value == IF includeKeys[k].file
                         /\ ~HasPrefix(res.value, DotSlash)
                         /\ ~HasPrefix(res.value, DotDotSlash)
                      THEN res.value
                      ELSE pathAbs(cwd, res.value)
             rest == parseIncludeOrFOption(cwd, args, i, k + 1)
         IN IF res.panic
            THEN [found |-> FALSE, args |-> <<>>, next |-> i,
                  noArg |-> FALSE, panic |-> TRUE]
            ELSE IF res.found
            THEN [found |-> TRUE, args |-> Append(res.args, value),
                  next |-> res.next, noArg |-> FALSE, panic |-> FALSE]
            ELSE [rest EXCEPT !.noArg = @ \/ res.err]

\* determineLocalCompiling
determineLocalCompiling(cwd, arg) ==
    \/ \E mark \in localCwdMarks : Contains(cwd, mark)
    \/ \E mark \in localArgMarks : Contains(arg, mark)
    \/ HasPrefix(Base(arg), ConftestPrefix)
    \/ HasPrefix(arg, TmpConftestPrefix)

\* Invocation.parsePreprocessorArg: `-MD file` or `-MMD file` among the
\* arguments of -Wp
parsePreprocessorArg(inv, args, j) ==
    LET md == parseArgFile(args, ArgMD, j)
        mmd == parseArgFile(args, ArgMMD, j)
        noArg(res) == IF res.err THEN "no argument" ELSE inv.err
    IN IF md.panic THEN [found |-> FALSE, next |-> j,
                         inv |-> [inv EXCEPT !.panic = TRUE]]
       ELSE IF md.found
       THEN [found |-> TRUE, next |-> md.next,
             inv |-> [inv EXCEPT !.depsFlags.flagMD = TRUE,
                          !.depsFlags.flagMF = pathAbs(inv.cwd, md.value)]]
       ELSE IF mmd.panic THEN [found |-> FALSE, next |-> j,
                               inv |-> [inv EXCEPT !.panic = TRUE]]
       ELSE IF mmd.found
       THEN [found |-> TRUE, next |-> mmd.next,
             inv |-> [inv EXCEPT !.err = noArg(md),
                          !.depsFlags.flagMMD = TRUE,
                          !.depsFlags.flagMF = pathAbs(inv.cwd, mmd.value)]]
       ELSE [found |-> FALSE, next |-> j,
             inv |-> [inv EXCEPT !.err = IF mmd.err THEN "no argument"
                                         ELSE noArg(md)]]

\* ParseCmdLineInvocation, the arguments of one -Wp from number j on: those
\* that parsePreprocessorArg leaves are appended to the command line
RECURSIVE ParseWpArgs(_, _, _, _)
ParseWpArgs(inv, cmdLine, wArgs, j) ==
    IF j > Len(wArgs) \/ inv.panic THEN [inv |-> inv, cmdLine |-> cmdLine]
    ELSE LET res == parsePreprocessorArg(inv, wArgs, j)
         IN IF res.found
            THEN ParseWpArgs(res.inv, cmdLine, wArgs, res.next + 1)
            ELSE ParseWpArgs(res.inv, Append(cmdLine, wArgs[j]), wArgs, j + 1)

\* ParseCmdLineInvocation, one turn of the loop over the command line, at
\* argument i, and the turns after it
RECURSIVE ParseArgs(_, _, _)
ParseArg(inv, cmdLine, i) ==
    IF i > Len(cmdLine) \/ inv.panic THEN inv
    ELSE
    LET arg == cmdLine[i]
        appended == [inv EXCEPT !.compilerArgs = Append(@, arg)]
        noArgument == [appended EXCEPT !.err = "no argument"]
        o == parseArgFile(cmdLine, ArgO, i)
        inc == parseIncludeOrFOption(inv.cwd, cmdLine, i, 1)
        mf == parseArgFile(cmdLine, ArgMF, i)
        mt == parseArgFile(cmdLine, ArgMT, i)
        mq == parseArgFile(cmdLine, ArgMQ, i)
        wp == ParseWpArgs(inv, cmdLine, SplitAtCommas(arg, <<>>), 2)
    IN
    IF arg = <<>> THEN ParseArgs(inv, cmdLine, i + 1)
    ELSE IF arg[1] = 45
    THEN IF arg = ArgC
         THEN ParseArgs([inv EXCEPT !.hascOption = TRUE], cmdLine, i + 1)
         ELSE IF o.panic \/ inc.panic \/ mf.panic \/ mt.panic \/ mq.panic
         THEN [inv EXCEPT !.panic = TRUE]
         ELSE IF o.found
         THEN ParseArgs(
                  [inv EXCEPT
                      !.invokeType = IF o.value = DevNull
                                     THEN invokedForLocalCompiling ELSE @,
                      !.objOutFile = pathAbs(inv.cwd, o.value)],
                  cmdLine, o.next + 1)
         ELSE IF inc.found
         THEN ParseArgs([inv EXCEPT !.compilerArgs = @ \o inc.args],
                        cmdLine, inc.next + 1)
         ELSE IF arg = ArgX /\ i + 1 > Len(cmdLine)
         THEN [inv EXCEPT !.panic = TRUE]
         ELSE IF arg = ArgX /\ cmdLine[i + 1] \in headerLanguages
         THEN ParseArgs(
                  [inv EXCEPT !.invokeType = invokedForCompilingPch,
                              !.compilerArgs = @ \o <<arg, cmdLine[i + 1]>>],
                  cmdLine, i + 2)
         ELSE IF arg = ArgX
         THEN ParseArgs(appended, cmdLine, i + 1)
         ELSE IF arg = ArgIDash \/ arg = ArgE
         THEN [inv EXCEPT !.err = "unsupported option"]
         ELSE IF mf.found
         THEN ParseArgs([inv EXCEPT !.depsFlags.flagMF =
                                        pathAbs(inv.cwd, mf.value)],
                        cmdLine, mf.next + 1)
         ELSE IF mt.found
         THEN ParseArgs([inv EXCEPT !.depsFlags =
                                        SetCmdFlagMT(@, mt.value)],
                        cmdLine, mt.next + 1)
         ELSE IF mq.found
         THEN ParseArgs([inv EXCEPT !.depsFlags =
                                        SetCmdFlagMQ(@, mq.value)],
                        cmdLine, mq.next + 1)
         ELSE IF arg = ArgMD
         THEN ParseArgs([inv EXCEPT !.depsFlags.flagMD = TRUE],
                        cmdLine, i + 1)
         ELSE IF arg = ArgMMD
         THEN ParseArgs([inv EXCEPT !.depsFlags.flagMMD = TRUE],
                        cmdLine, i + 1)
         ELSE IF arg = ArgMP
         THEN ParseArgs([inv EXCEPT !.depsFlags.flagMP = TRUE],
                        cmdLine, i + 1)
         ELSE IF arg = ArgM \/ arg = ArgMM \/ arg = ArgMG
         THEN [inv EXCEPT !.err = "unsupported option"]
         ELSE IF arg = ArgMarchNative
         THEN [inv EXCEPT !.err = "-march=native"]
         ELSE IF HasPrefix(arg, ArgWp)
         THEN ParseArgs(wp.inv, wp.cmdLine, i + 1)
         ELSE IF o.err \/ inc.noArg \/ mf.err \/ mt.err \/ mq.err
         THEN ParseArgs(noArgument, cmdLine, i + 1)
         ELSE ParseArgs(appended, cmdLine, i + 1)
    ELSE IF isSourceFileName(arg) \/ isHeaderFileName(arg)
    THEN IF inv.cppInFile # <<>>
         THEN [inv EXCEPT !.err = "multiple input source files"]
         ELSE ParseArgs(
                  [inv EXCEPT
                      !.invokeType = IF determineLocalCompiling(inv.cwd, arg)
                                     THEN invokedForLocalCompiling ELSE @,
                      !.cppInFile = pathAbs(inv.cwd, arg)],
                  cmdLine, i + 1)
    ELSE ParseArgs(appended, cmdLine, i + 1)

\* ParseCmdLineInvocation, the loop over the command line from argument i on
\* (the invocation so far, the command line and i are evaluated once a turn)
ParseArgs(inv, cmdLine, i) ==
    CHOOSE parsed \in
        {ParseArg(turn.inv, turn.cmdLine, turn.i) :
            turn \in {[inv |-> inv, cmdLine |-> cmdLine, i |-> i]}} : TRUE

\* Invocation.ParseCmdLineInvocation
ParseCmdLineInvocation(cwd, cmdLine) ==
    LET inv == ParseArgs(CreateInvocation(cwd), cmdLine, 1)
    IN IF inv.panic \/ inv.err # "" \/ inv.invokeType # invokedUnsupported
       THEN inv
       ELSE IF inv.hascOption /\ inv.cppInFile # <<>>
       THEN [inv EXCEPT
                !.objOutFile =
                    IF @ = <<>>
                    THEN inv.cwd \o <<47>>
                             \o ReplaceFileExt(Base(inv.cppInFile), <<46, 111>>)
                    ELSE @,
                !.invokeType = invokedForCompilingCpp]
       ELSE IF inv.cppInFile # <<>> /\ inv.objOutFile # <<>>
       THEN [inv EXCEPT !.invokeType = invokedForLinking]
       ELSE [inv EXCEPT !.err = "no output file specified"]

(***************************************************************************)
(* The compilations the clients ask for.                                   *)
(***************************************************************************)
CompilerGxx == <<103, 43, 43>>                             \* g++
DirA    == <<47, 97>>                                      \* /a
DirB    == <<47, 98>>                                      \* /b
RelI    == <<105>>                                         \* i
AbsAI   == <<47, 97, 47, 105>>                             \* /a/i
JoinedIBI == <<45, 73, 47, 98, 47, 105>>                   \* -I/b/i
RelFoo  == <<102, 111, 111, 46, 99, 112, 112>>             \* foo.cpp
PathAX  == <<47, 97, 47, 120, 46, 104>>                    \* /a/x.h
PathBX  == <<47, 98, 47, 120, 46, 104>>                    \* /b/x.h
ContentX   == <<35, 100, 101, 102>>                        \* the bytes of x.h
ContentFoo == <<105, 110, 116, 32, 109>>                   \* the bytes of foo.cpp
ContentFooEdited == <<105, 110, 116, 32, 110>>             \* foo.cpp after an edit

\* pb.FileMetadata of a file with the given bytes
FileMetadata(fileName, content) ==
    [FileName |-> fileName, FileSize |-> Len(content),
     SHA256 |-> MakeSHA256Struct(content)]

\* pb.StartCompilationSessionRequest as RemoteConnection.StartCompilationSession
\* fills it from the parsed invocation
StartCompilationSessionRequest(clientID, cwd, cmdLine, requiredFiles) ==
    [ClientID |-> clientID,
     InputFile |-> ParseCppInFile(cwd, cmdLine, 1),
     Compiler |-> CompilerGxx,
     CompilerArgs |-> ParseCompilerArgs(cwd, cmdLine, 1),
     RequiredFiles |-> requiredFiles]

ClientIDs == {"c1", "c2"}

\* c1 in /a:  g++ -O2 -I i -c foo.cpp
\* c2 in /b:  g++ -O2 -I /a/i -c foo.cpp   (the same files, its own copy)
\* c1 in /a:  g++ -O2 -I/b/i -c foo.cpp    (only the include path differs)
\* c2 in /b:  g++ -O2 -I /a/i -c foo.cpp   (after foo.cpp was edited)
Requests ==
    << StartCompilationSessionRequest("c1", DirA,
           <<ArgO2, ArgI, RelI, ArgC, RelFoo>>,
           <<FileMetadata(PathAX, ContentX), FileMetadata(PathAFoo, ContentFoo)>>),
       StartCompilationSessionRequest("c2", DirB,
           <<ArgO2, ArgI, AbsAI, ArgC, RelFoo>>,
           <<FileMetadata(PathBX, ContentX), FileMetadata(PathBFoo, ContentFoo)>>),
       StartCompilationSessionRequest("c1", DirA,
           <<ArgO2, JoinedIBI, ArgC, RelFoo>>,
           <<FileMetadata(PathAX, ContentX), FileMetadata(PathAFoo, ContentFoo)>>),
       StartCompilationSessionRequest("c2", DirB,
           <<ArgO2, ArgI, AbsAI, ArgC, RelFoo>>,
           <<FileMetadata(PathBX, ContentX),
             FileMetadata(PathBFoo, ContentFooEdited)>>) >>

FileNames == {PathAX, PathAFoo, PathBX, PathBFoo}

NoChoice == [path |-> <<>>, index |-> -1, n |-> 0, unavailable |-> {}]

VARIABLES
    shardWorkers,      \* len(daemon.remoteConnections)
    shardUnavailable,  \* the indexes of the workers whose isUnavailable is set
    shardChosen        \* per invocation: the input path and the index chosen

shardVars == <<shardWorkers, shardUnavailable, shardChosen>>

VARIABLES
    invocations,        \* every Invocation the daemon created, by sessionID
    activeInvocations,  \* daemon.activeInvocations (the sessionIDs)
    mu,                 \* daemon.mu: "free", or who holds it
    isUnavailable,      \* remote.isUnavailable
    reconnectClosed,    \* whether remote.reconnectChan is closed
    chanToUpload,       \* remote.chanToUpload: the invocation of each request
    uploadStream,       \* the upload goroutine: its position and its request
    recvStream,         \* the receive goroutine: its position
    quitClosed,         \* whether daemon.quitDaemonChan is closed
    quitTask,           \* QuitDaemonGracefully: its position, who it interrupted
    forceInterrupt,     \* the running ForceInterrupt: its invocation, position
    panicked            \* an unrecovered panic ended the process

daemonVars == <<invocations, activeInvocations, mu, isUnavailable,
                reconnectClosed, chanToUpload, uploadStream, recvStream,
                quitClosed, quitTask, forceInterrupt, panicked>>

VARIABLES
    sessions,           \* every Session of the worker, by sessionID
    clientFiles,        \* per client: client.files, by client file name
    objFileCache,       \* the keys stored in NoccServer.ObjFileCache
    srcFileCache,       \* the sha256 stored in NoccServer.SrcFileCache
    uploads,            \* the uploads a client was asked for and has not ended
    chanReadySessions,  \* per client: client.chanReadySessions
    faults              \* how many uploads were found hanged, how many broke

serverVars == <<sessions, clientFiles, objFileCache, srcFileCache, uploads,
                chanReadySessions, faults>>

(***************************************************************************)
(* One invocation from the socket to its reply: Daemon.HandleInvocation    *)
(* with the command line parsed, the worker chosen, the remote compilation *)
(* and the local compiler.                                                 *)
(***************************************************************************)
MaxRemotes == 2

\* the options the daemon does not send to a worker
UnsupportedOptions == {ArgE, ArgIDash, ArgMarchNative, ArgM, ArgMM, ArgMG}

\* g++ -c foo.cpp -o foo.o
BaseCmdLine == <<ArgC, RelFoo, ArgO, RelFooO>>

\* g++ -x c++-header x.h -o foo.o
PchCmdLine == <<ArgX, LangCxxHeader, RelXH, ArgO, RelFooO>>

\* g++ -c foo.cpp -o /dev/null
DevNullCmdLine == <<ArgC, RelFoo, ArgO, DevNull>>

InsertAt(cmdLine, k, arg) ==
    SubSeq(cmdLine, 1, k - 1) \o <<arg>> \o SubSeq(cmdLine, k, Len(cmdLine))

\* the positions of a command line where an option can stand: not between
\* an option and the value it takes from the next argument
OptionPositions(cmdLine) ==
    {k \in 1..(Len(cmdLine) + 1) :
        k = 1 \/ cmdLine[k - 1] \notin {ArgO, ArgX, ArgMF, ArgMT, ArgMQ}}

\* the command lines with one unsupported option somewhere
UnsupportedCmdLines ==
    UNION {{InsertAt(cmdLine, k, option) : k \in OptionPositions(cmdLine)} :
              cmdLine \in {BaseCmdLine, PchCmdLine, DevNullCmdLine},
              option \in UnsupportedOptions}
        \cup {<<ArgC, RelFoo, ArgWpE>>}

\* the command lines that ask for a dependency file
DepCmdLines ==
    { BaseCmdLine \o <<ArgMD>>,
      BaseCmdLine \o <<ArgMMD, ArgMF, RelFooD>>,
      BaseCmdLine \o <<ArgMD, ArgMT, TargetT>>,
      BaseCmdLine \o <<ArgMD, ArgMT \o TargetT, ArgMQ, TargetDollar, ArgMP>>,
      BaseCmdLine \o <<ArgMD, ArgMQ, TargetDollar>>,
      <<ArgC, RelFoo, ArgMD>>,
      BaseCmdLine \o <<ArgWpMD>> }

\* every command line the wrapper sends here
\* the flags that take their value from the next argument
ValueFlags == {ArgO, ArgMF, ArgMT, ArgMQ, ArgX, ArgInclude}

\* the command lines that end with a flag whose value is missing, or with
\* such a flag and -Xclang
NoValueCmdLines ==
    {<<ArgC, RelFoo, flag>> : flag \in ValueFlags}
        \cup {<<ArgC, RelFoo, flag, ArgXclang>> : flag \in ValueFlags}

\* g++ -c foo.cpp conftest.c
TwoSourcesCmdLine == <<ArgC, RelFoo, RelConftest>>

CmdLines ==
    UnsupportedCmdLines \cup DepCmdLines \cup NoValueCmdLines
        \cup {TwoSourcesCmdLine}
        \cup { BaseCmdLine, PchCmdLine, DevNullCmdLine,
               <<ArgO2, ArgI, RelI, ArgC, RelFoo>>,
               <<ArgC, RelConftest, ArgO, RelFooO>>,
               <<RelFoo, ArgO, RelFooO>>,
               <<ArgC, RelFoo, ArgO>>,
               <<ArgC, ArgX, LangCxx, RelFoo>> }

\* what a compiler writes: nothing, or diagnostics
NoOutput == <<>>

CompilerOutputs == {NoOutput, <<"diagnostics">>}

\* a run of a compiler: its exit code and what it wrote
CompilerRuns ==
    [ExitCode : {0, 1}, Stdout : {NoOutput}, Stderr : CompilerOutputs]

NoReply == [ExitCode |-> -1, Stdout |-> NoOutput, Stderr |-> NoOutput]

NoDepFile == [name |-> <<>>, DTargets |-> <<>>]

VARIABLES
    hReq,         \* the request and the daemon it reaches
    hPc,          \* where HandleInvocation is
    hInvocation,  \* the Invocation of the request
    hRemote,      \* the worker chosen, the sessions started on each worker,
                  \* and what the remote compiler returned
    hLocal,       \* the runs of the local compiler and what the last returned
    hDepFile,     \* the dependency file the daemon wrote
    hReply        \* the DaemonSockResponse

handlerVars == <<hReq, hPc, hInvocation, hRemote, hLocal, hDepFile, hReply>>

NumPchSessions == 2
MaxPchCalls == 2
MaxPchHanged == 1
MaxPchBroken == 1

VARIABLES
    pchFile,      \* the .nocc-pch of one client: its state in client.files,
                  \* whether the real PCH is in the client's directory and in
                  \* the obj cache
    pchSessions,  \* the sessions of that client that need the .nocc-pch
    pchUploads,   \* the sessions asked to upload it whose upload has not ended
    pchStats      \* how often the PCH compiler ran and succeeded, how many
                  \* uploads were found hanged, how many broke

pchVars == <<pchFile, pchSessions, pchUploads, pchStats>>

NumConns == 2
MaxClock == 22

\* the idle check of EnterInfiniteLoopUntilQuit: time.After(5 * time.Second),
\* time.Since(listener.lastTimeAlive).Seconds() > 15
IdleCheckSeconds == 5
IdleQuitSeconds == 15

VARIABLES
    sockClock,    \* the time in seconds since the daemon created its listener
    sockListener, \* the DaemonUnixSockListener: activeConnections, lastTimeAlive, whether netListener is closed
    sockConns,    \* the position of the onRequest goroutine of every connection of a wrapper
    sockLoop      \* EnterInfiniteLoopUntilQuit: its position, the nActive it loaded, when its timer fires, whether quitDaemonChan is closed

sockVars == <<sockClock, sockListener, sockConns, sockLoop>>

NumLocal == 3
MaxQueueSize == 2

VARIABLES
    localDaemon,       \* the daemon's configuration.CompilerQueueSize, disableLocalCompiler and the number of values in localCompilerThrottle
    localInvocations   \* the requests that reached InvokeLocalCompilation: their position and their reply

localVars == <<localDaemon, localInvocations>>

NumObjSessions == 2
MaxObjSize == 3
ObjChunkBufSize == 2
MaxObjPushes == 2

VARIABLES
    objSessions,   \* the worker's sessions whose compiler ended: compilerExitCode and the size of the object file
    objServer,     \* the goroutine of RecvCompiledObjStream: its position, client.chanReadySessions, the session and the offset it sends
    objStream,     \* the stream of compiled objects: every chunk sent, the chunks not yet received, whether the stream is broken
    objClient      \* the goroutine of monitorRemoteStreamForObjReceiving and the files it writes

objVars == <<objSessions, objServer, objStream, objClient>>

MaxUpSize == 3
UpChunkBufSize == 2
MaxUpStreams == 2

VARIABLES
    upFiles,        \* the size of the file of every upload request
    upInvocations,  \* the invocations that upload: err and the counter of wgUpload
    upRemote,       \* the RemoteConnection: chanToUpload, isUnavailable, whether reconnectChan is closed, the streams created
    upClient,       \* the goroutine of runUploadStream: its position, the request and the offset it uploads
    upStream,       \* the upload stream: every chunk sent, the chunks and the confirmations not yet received, its status
    upServer        \* the worker's UploadFileStream handler of that stream

upVars == <<upFiles, upInvocations, upRemote, upClient, upStream, upServer>>

MaxReconClock == 12
FirstReconnectDelay == 1
ReconnectDelay == 2
RestartDelay == 6
MaxAttemptTime == 1

VARIABLES
    reconClock,    \* the time, in units in which the 5 seconds between two reconnections are ReconnectDelay and the 5 minutes RestartDelay
    reconRemote    \* a RemoteConnection and its goroutine of tryReconnectRemote: the two timer channels and the reconnections made

reconVars == <<reconClock, reconRemote>>

MaxTasks == 3

VARIABLES
    taskRemote,    \* a RemoteConnection: isUnavailable, whether reconnectChan is closed, the goroutine of tryReconnectRemote
    taskStreams    \* the goroutines of CreateUploadStream and of CreateReceiveStream, counted by their position

taskVars == <<taskRemote, taskStreams>>

MaxClientInstances == 2
MaxDeleters == 2

VARIABLES
    cliStorage,    \* ClientsStorage: the Client in the table for the clientID (0: none), the Clients created, whether StopAllClients ran
    cliClosed,     \* how many times close(client.chanDisconnected) was called, by Client
    cliTasks       \* the calls of DeleteClient in progress and the position of the StartClient handler

cliVars == <<cliStorage, cliClosed, cliTasks>>

NumKeySessions == 2

VARIABLES
    keyRequests,   \* the StartCompilationSessionRequest the daemon built, by session (<<>>: none yet)
    keySessions    \* the worker's Session made from it: files and objCacheKey (<<>>: none yet)

keyVars == <<keyRequests, keySessions>>

NumRdySessions == 3
ReadyChanCap == 1

VARIABLES
    rdyClient,     \* a Client of the worker: whether chanDisconnected is closed, the content of chanReadySessions
    rdyTasks       \* the handler of RecvCompiledObjStream and, by session, the task that ends with PushToClientReadyChannel

rdyVars == <<rdyClient, rdyTasks>>

\* the variables outside each part of the model
nonShardVars == <<daemonVars, serverVars, handlerVars, pchVars, sockVars, localVars, objVars, upVars, reconVars, taskVars, cliVars, keyVars, rdyVars>>

nonDaemonVars == <<shardVars, serverVars, handlerVars, pchVars, sockVars, localVars, objVars, upVars, reconVars, taskVars, cliVars, keyVars, rdyVars>>

nonServerVars == <<shardVars, daemonVars, handlerVars, pchVars, sockVars, localVars, objVars, upVars, reconVars, taskVars, cliVars, keyVars, rdyVars>>

nonHandlerVars == <<shardVars, daemonVars, serverVars, pchVars, sockVars, localVars, objVars, upVars, reconVars, taskVars, cliVars, keyVars, rdyVars>>

nonPchVars == <<shardVars, daemonVars, serverVars, handlerVars, sockVars, localVars, objVars, upVars, reconVars, taskVars, cliVars, keyVars, rdyVars>>

nonSockVars == <<shardVars, daemonVars, serverVars, handlerVars, pchVars, localVars, objVars, upVars, reconVars, taskVars, cliVars, keyVars, rdyVars>>

nonLocalVars == <<shardVars, daemonVars, serverVars, handlerVars, pchVars, sockVars, objVars, upVars, reconVars, taskVars, cliVars, keyVars, rdyVars>>

nonObjVars == <<shardVars, daemonVars, serverVars, handlerVars, pchVars, sockVars, localVars, upVars, reconVars, taskVars, cliVars, keyVars, rdyVars>>

nonUpVars == <<shardVars, daemonVars, serverVars, handlerVars, pchVars, sockVars, localVars, objVars, reconVars, taskVars, cliVars, keyVars, rdyVars>>

nonReconVars == <<shardVars, daemonVars, serverVars, handlerVars, pchVars, sockVars, localVars, objVars, upVars, taskVars, cliVars, keyVars, rdyVars>>

nonTaskVars == <<shardVars, daemonVars, serverVars, handlerVars, pchVars, sockVars, localVars, objVars, upVars, reconVars, cliVars, keyVars, rdyVars>>

nonCliVars == <<shardVars, daemonVars, serverVars, handlerVars, pchVars, sockVars, localVars, objVars, upVars, reconVars, taskVars, keyVars, rdyVars>>

nonKeyVars == <<shardVars, daemonVars, serverVars, handlerVars, pchVars, sockVars, localVars, objVars, upVars, reconVars, taskVars, cliVars, rdyVars>>

nonRdyVars == <<shardVars, daemonVars, serverVars, handlerVars, pchVars, sockVars, localVars, objVars, upVars, reconVars, taskVars, cliVars, keyVars>>

\* MakeDaemon / ConnectToRemoteHosts: one connection per configured host; a
\* host that could not be connected starts unavailable
ShardInit ==
    /\ shardWorkers \in 1..MaxWorkers
    /\ shardUnavailable \in SUBSET (0..(shardWorkers - 1))
    /\ shardChosen = [i \in 1..NumShardInv |-> NoChoice]

\* HandleInvocation, case invokedForCompilingCpp: the worker is chosen from
\* the input file name alone
ShardChoose(i, path) ==
    /\ shardChosen[i] = NoChoice
    /\ shardChosen' = [shardChosen EXCEPT ![i] =
            [path |-> path,
             index |-> ChooseRemoteIndex(path, shardWorkers),
             n |-> shardWorkers,
             unavailable |-> shardUnavailable]]
    /\ UNCHANGED <<shardWorkers, shardUnavailable>>
    /\ UNCHANGED nonShardVars

\* a worker becomes unavailable or is reconnected
ShardFlipAvailability(w) ==
    /\ shardUnavailable' = IF w \in shardUnavailable
                           THEN shardUnavailable \ {w}
                           ELSE shardUnavailable \cup {w}
    /\ UNCHANGED <<shardWorkers, shardChosen>>
    /\ UNCHANGED nonShardVars

ShardNext ==
    \/ \E i \in 1..NumShardInv, path \in ShardPaths : ShardChoose(i, path)
    \/ \E w \in 0..(shardWorkers - 1) : ShardFlipAvailability(w)

(***************************************************************************)
(* The daemon: the life of an invocation from the wrapper's request to its *)
(* response, against the one worker chosen for it.  The upload stream, the *)
(* receive stream, the periodic interrupter and the quit run beside the    *)
(* invocation's own goroutine.                                             *)
(***************************************************************************)
NumInv == 2
MaxUploads == 1

\* a variant of the availability check that lets every request through
StartSessionUnchecked(flag) == TRUE

\* RemoteConnection.StartCompilationSession: `if remote.isUnavailable.Load()`
\* returns an error, the request is sent otherwise
StartSessionAllowed(flag) == ~flag

\* CreateInvocation; the history fields (saw..., requests, responses, kind)
\* record what the goroutine of the invocation observed and produced
NewInvocation ==
    [pc |-> "idle", nUpload |-> 0,
     waitUploads |-> 0, wgUpload |-> 0, wgRecv |-> 0, doneRecv |-> 0,
     err |-> FALSE, retErr |-> FALSE,
     sawUnavailable |-> FALSE, checkedFlag |-> FALSE,
     requests |-> 0, requestWhileUnavailable |-> FALSE,
     responses |-> 0, kind |-> "none"]

\* Invocation.DoneUploadFile
DoneUploadFile(rec, err) ==
    [rec EXCEPT !.err = @ \/ err, !.waitUploads = @ - 1, !.wgUpload = @ - 1]

\* Invocation.DoneRecvObj
DoneRecvObj(rec, err) ==
    IF rec.doneRecv = 0
    THEN [rec EXCEPT !.doneRecv = 1, !.err = @ \/ err, !.wgRecv = @ - 1]
    ELSE rec

\* sync.WaitGroup: Add panics when the counter becomes negative
WaitGroupPanics(rec) == rec.wgUpload < 0 \/ rec.wgRecv < 0

RECURSIVE Repeat(_, _)
Repeat(x, n) == IF n = 0 THEN <<>> ELSE <<x>> \o Repeat(x, n - 1)

NoForce == [inv |-> 0, pc |-> "none"]

\* MakeDaemon and MakeRemoteConnection: the worker may have failed to connect
DaemonInit ==
    /\ invocations = [i \in 1..NumInv |-> NewInvocation]
    /\ activeInvocations = {}
    /\ mu = "free"
    /\ isUnavailable \in BOOLEAN
    /\ reconnectClosed = isUnavailable
    /\ chanToUpload = <<>>
    /\ uploadStream = [pc |-> IF isUnavailable THEN "stopped" ELSE "monitor", cur |-> 0]
    /\ recvStream = IF isUnavailable THEN "stopped" ELSE "monitor"
    /\ quitClosed = FALSE
    /\ quitTask = [pc |-> "none", visited |-> {}]
    /\ forceInterrupt = NoForce
    /\ panicked = FALSE

ProcessAlive == ~panicked

\* what an action on invocation i leaves alone besides the invocation
InvOnly == UNCHANGED <<activeInvocations, mu, isUnavailable, reconnectClosed,
                       chanToUpload, uploadStream, recvStream, quitClosed,
                       quitTask, forceInterrupt, panicked>>

\* DaemonUnixSockListener.onRequest and the head of HandleInvocation: the
\* request gets the next sessionID (daemon.totalInvocations.Add(1)) and is
\* parsed; only a compilation of a .cpp goes remote, and
\* `if remote.isUnavailable` falls back to local
HandleInvocationAccept(i, cpp) ==
    /\ ProcessAlive /\ ~quitClosed
    /\ invocations[i].pc = "idle"
    /\ \A j \in 1..(i - 1) : invocations[j].pc # "idle"
    /\ invocations' = [invocations EXCEPT ![i] =
           IF ~cpp THEN [@ EXCEPT !.pc = "local"]
           ELSE IF isUnavailable
           THEN [@ EXCEPT !.pc = "local", !.sawUnavailable = TRUE]
           ELSE [@ EXCEPT !.pc = "lock"]]
    /\ InvOnly
    /\ UNCHANGED nonDaemonVars

\* HandleInvocation: daemon.activeInvocations[sessionID] = invocation
HandleInvocationRegister(i) ==
    /\ ProcessAlive
    /\ invocations[i].pc = "lock"
    /\ mu = "free"
    /\ activeInvocations' = activeInvocations \cup {i}
    /\ invocations' = [invocations EXCEPT ![i].pc = "registered"]
    /\ UNCHANGED <<mu, isUnavailable, reconnectClosed, chanToUpload,
                   uploadStream, recvStream, quitClosed, quitTask,
                   forceInterrupt, panicked>>
    /\ UNCHANGED nonDaemonVars

\* CompileCppRemotely: invocation.wgRecv.Add(1), then
\* CollectDependentIncludes succeeds or fails
CompileCollect(i, ok) ==
    /\ ProcessAlive
    /\ invocations[i].pc = "registered"
    /\ LET rec == [invocations[i] EXCEPT !.wgRecv = @ + 1]
       IN  /\ invocations' = [invocations EXCEPT ![i] =
                  IF WaitGroupPanics(rec) THEN rec
                  ELSE IF ok THEN [rec EXCEPT !.pc = "sessionCheck"]
                  ELSE [rec EXCEPT !.pc = "unlock", !.retErr = TRUE]]
           /\ panicked' = WaitGroupPanics(rec)
    /\ UNCHANGED <<activeInvocations, mu, isUnavailable, reconnectClosed,
                   chanToUpload, uploadStream, recvStream, quitClosed,
                   quitTask, forceInterrupt>>
    /\ UNCHANGED nonDaemonVars

\* RemoteConnection.StartCompilationSession: the check of the flag
StartSessionCheck(i) ==
    /\ ProcessAlive
    /\ invocations[i].pc = "sessionCheck"
    /\ invocations' = [invocations EXCEPT ![i] =
           IF StartSessionAllowed(isUnavailable)
           THEN [@ EXCEPT !.pc = "rpc", !.checkedFlag = isUnavailable]
           ELSE [@ EXCEPT !.pc = "unlock", !.retErr = TRUE,
                          !.sawUnavailable = TRUE]]
    /\ InvOnly
    /\ UNCHANGED nonDaemonVars

\* RemoteConnection.StartCompilationSession: the request is sent and
\* answered with an error or with n files to upload; then
\* UploadFilesToRemote: invocation.waitUploads.Store(n)
StartSessionRpc(i, ok, n) ==
    /\ ProcessAlive
    /\ invocations[i].pc = "rpc"
    /\ invocations' = [invocations EXCEPT ![i] =
           LET sent == [@ EXCEPT !.requests = @ + 1,
                                 !.requestWhileUnavailable = isUnavailable]
           IN  IF ok
               THEN [sent EXCEPT !.pc = "uploadAdd", !.nUpload = n,
                                 !.waitUploads = n]
               ELSE [sent EXCEPT !.pc = "unlock", !.retErr = TRUE]]
    /\ InvOnly
    /\ UNCHANGED nonDaemonVars

\* UploadFilesToRemote: wgUpload.Add(waitUploads.Load()) and one request per
\* file index pushed to chanToUpload
UploadFilesAdd(i) ==
    /\ ProcessAlive
    /\ invocations[i].pc = "uploadAdd"
    /\ LET rec == [invocations[i] EXCEPT !.pc = "uploadWait", !.nUpload = 0,
                       !.wgUpload = @ + invocations[i].waitUploads]
       IN  /\ invocations' = [invocations EXCEPT ![i] = rec]
           /\ panicked' = WaitGroupPanics(rec)
    /\ chanToUpload' = chanToUpload \o Repeat(i, invocations[i].nUpload)
    /\ UNCHANGED <<activeInvocations, mu, isUnavailable, reconnectClosed,
                   uploadStream, recvStream, quitClosed, quitTask,
                   forceInterrupt>>
    /\ UNCHANGED nonDaemonVars

\* UploadFilesToRemote: wgUpload.Wait() and `return invocation.err`
UploadFilesWait(i) ==
    /\ ProcessAlive
    /\ invocations[i].pc = "uploadWait"
    /\ invocations[i].wgUpload = 0
    /\ invocations' = [invocations EXCEPT ![i] =
           IF @.err THEN [@ EXCEPT !.pc = "unlock", !.retErr = TRUE]
                    ELSE [@ EXCEPT !.pc = "recvWait"]]
    /\ InvOnly
    /\ UNCHANGED nonDaemonVars

\* RemoteConnection.WaitForCompiledObj: wgRecv.Wait() and the result with
\* invocation.err
WaitForCompiledObj(i) ==
    /\ ProcessAlive
    /\ invocations[i].pc = "recvWait"
    /\ invocations[i].wgRecv = 0
    /\ invocations' = [invocations EXCEPT ![i].pc = "unlock",
                                          ![i].retErr = invocations[i].err]
    /\ InvOnly
    /\ UNCHANGED nonDaemonVars

\* HandleInvocation: delete(daemon.activeInvocations, sessionID); the reply
\* of the worker is returned unless CompileCppRemotely returned an error.
\* Once the invocation is out of activeInvocations neither a stream nor
\* ForceInterrupt finds it, so err, doneRecv and wgRecv are never read again
\* and are dropped from the state; the upload counters stay, a request of
\* the invocation may still be in chanToUpload
HandleInvocationUnregister(i) ==
    /\ ProcessAlive
    /\ invocations[i].pc = "unlock"
    /\ mu = "free"
    /\ activeInvocations' = activeInvocations \ {i}
    /\ invocations' = [invocations EXCEPT ![i] =
           LET out == [@ EXCEPT !.retErr = FALSE, !.err = FALSE,
                                !.doneRecv = 0, !.wgRecv = 0]
           IN  IF @.retErr
               THEN [out EXCEPT !.pc = "local"]
               ELSE [out EXCEPT !.pc = "done", !.responses = @ + 1,
                                !.kind = "remote"]]
    /\ UNCHANGED <<mu, isUnavailable, reconnectClosed, chanToUpload,
                   uploadStream, recvStream, quitClosed, quitTask,
                   forceInterrupt, panicked>>
    /\ UNCHANGED nonDaemonVars

\* Daemon.InvokeLocalCompilation: the local compiler's result, or exit code 1
\* when the local fallback is disabled (daemon.disableLocalCxx, a value of
\* the configuration that nothing else reads)
InvokeLocalCompilation(i, disableLocalCxx) ==
    /\ ProcessAlive
    /\ invocations[i].pc = "local"
    /\ invocations' = [invocations EXCEPT ![i].pc = "done",
           ![i].responses = @ + 1,
           ![i].kind = IF disableLocalCxx THEN "error" ELSE "local"]
    /\ InvOnly
    /\ UNCHANGED nonDaemonVars

\* what an action of a stream or a task leaves alone when it touches only
\* its own position
UploadOnly == UNCHANGED <<activeInvocations, mu, recvStream, quitClosed,
                          quitTask, forceInterrupt>>

\* monitorClientChanForFileUploading: `case req := <-rc.chanToUpload`
UploadTake ==
    /\ ProcessAlive
    /\ uploadStream.pc = "monitor"
    /\ chanToUpload # <<>>
    /\ uploadStream' = [pc |-> "uploading", cur |-> Head(chanToUpload)]
    /\ chanToUpload' = Tail(chanToUpload)
    /\ UNCHANGED <<invocations, isUnavailable, reconnectClosed, panicked>>
    /\ UploadOnly
    /\ UNCHANGED nonDaemonVars

\* monitorClientChanForFileUploading: `case <-rc.quitDaemonChan` and
\* `case <-rc.reconnectChan`
UploadStop ==
    /\ ProcessAlive
    /\ uploadStream.pc = "monitor"
    /\ quitClosed \/ reconnectClosed
    /\ uploadStream' = [pc |-> "stopped", cur |-> 0]
    /\ UNCHANGED <<invocations, isUnavailable, reconnectClosed, panicked,
                   chanToUpload>>
    /\ UploadOnly
    /\ UNCHANGED nonDaemonVars

\* uploadFileByChunks returns: on success DoneUploadFile(nil); on an error
\* runUploadStream returns silently when the daemon quits or the worker is
\* being reconnected, marks the worker unavailable on Unauthenticated, and
\* otherwise recreates the stream and calls DoneUploadFile(err)
UploadDone(outcome) ==
    /\ ProcessAlive
    /\ uploadStream.pc = "uploading"
    /\ LET i == uploadStream.cur
           silent == outcome # "ok" /\ (quitClosed \/ reconnectClosed)
           unauth == outcome = "unauth" /\ ~silent
           rec == IF silent \/ unauth THEN invocations[i]
                  ELSE DoneUploadFile(invocations[i], outcome # "ok")
       IN  /\ invocations' = [invocations EXCEPT ![i] = rec]
           /\ panicked' = WaitGroupPanics(rec)
           /\ uploadStream' = [pc |-> IF silent \/ unauth THEN "stopped" ELSE "monitor",
                               cur |-> 0]
           /\ isUnavailable' = (isUnavailable \/ unauth)
           /\ reconnectClosed' = (reconnectClosed \/ unauth)
    /\ UNCHANGED chanToUpload
    /\ UploadOnly
    /\ UNCHANGED nonDaemonVars

\* monitorRemoteStreamForObjReceiving: the result of session i arrives and
\* DoneRecvObj is called; an invocation not found among the active ones is
\* skipped, which changes nothing
RecvObj(i, err) ==
    /\ ProcessAlive
    /\ recvStream = "monitor"
    /\ mu = "free"
    /\ invocations[i].requests > 0
    /\ i \in activeInvocations
    /\ LET rec == DoneRecvObj(invocations[i], err)
       IN  /\ invocations' = [invocations EXCEPT ![i] = rec]
           /\ panicked' = WaitGroupPanics(rec)
    /\ UNCHANGED <<activeInvocations, mu, isUnavailable, reconnectClosed,
                   chanToUpload, uploadStream, recvStream, quitClosed,
                   quitTask, forceInterrupt>>
    /\ UNCHANGED nonDaemonVars

\* monitorRemoteStreamForObjReceiving: `case <-rc.quitDaemonChan` and
\* `case <-rc.reconnectChan`
RecvStop ==
    /\ ProcessAlive
    /\ recvStream = "monitor"
    /\ quitClosed \/ reconnectClosed
    /\ recvStream' = "stopped"
    /\ UNCHANGED <<invocations, activeInvocations, mu, isUnavailable,
                   reconnectClosed, chanToUpload, uploadStream, quitClosed,
                   quitTask, forceInterrupt, panicked>>
    /\ UNCHANGED nonDaemonVars

\* RemoteConnection.OnRemoteBecameUnavailable (from VerifyAlive or from a
\* stream that could not be created): the flag is set and reconnectChan closed
OnRemoteBecameUnavailable ==
    /\ ProcessAlive
    /\ ~isUnavailable
    /\ isUnavailable' = TRUE
    /\ reconnectClosed' = TRUE
    /\ UNCHANGED <<invocations, activeInvocations, mu, chanToUpload,
                   uploadStream, recvStream, quitClosed, quitTask,
                   forceInterrupt, panicked>>
    /\ UNCHANGED nonDaemonVars

\* tryReconnectRemote / reconnectRemote with SetupConnection succeeding: a
\* new reconnectChan, new streams, and then isUnavailable.Store(false)
ReconnectRemote ==
    /\ ProcessAlive
    /\ isUnavailable
    /\ ~quitClosed
    /\ uploadStream.pc = "stopped"
    /\ recvStream = "stopped"
    /\ isUnavailable' = FALSE
    /\ reconnectClosed' = FALSE
    /\ uploadStream' = [pc |-> "monitor", cur |-> 0]
    /\ recvStream' = "monitor"
    /\ UNCHANGED <<invocations, activeInvocations, mu, chanToUpload,
                   quitClosed, quitTask, forceInterrupt, panicked>>
    /\ UNCHANGED nonDaemonVars

ForceOnly == UNCHANGED <<activeInvocations, isUnavailable, reconnectClosed,
                         chanToUpload, uploadStream, recvStream, quitClosed>>

\* PeriodicallyInterruptHangedInvocations, `case <-time.After(10s)`: under
\* daemon.mu, an active invocation older than the timeout is interrupted.
\* An invocation grows that old only where it waits: in the request to the
\* worker, for its uploads or for its object
TimeoutForce(i) ==
    /\ ProcessAlive
    /\ ~quitClosed
    /\ mu = "free"
    /\ i \in activeInvocations
    /\ invocations[i].pc \in {"rpc", "uploadWait", "recvWait"}
    /\ mu' = "timeout"
    /\ forceInterrupt' = [inv |-> i, pc |-> "load"]
    /\ UNCHANGED <<invocations, quitTask, panicked>>
    /\ ForceOnly
    /\ UNCHANGED nonDaemonVars

\* Invocation.ForceInterrupt: `for invocation.waitUploads.Load() != 0`
ForceLoad ==
    /\ ProcessAlive
    /\ forceInterrupt.pc = "load"
    /\ forceInterrupt' = [forceInterrupt EXCEPT !.pc =
           IF invocations[forceInterrupt.inv].waitUploads # 0
           THEN "doneUpload" ELSE "doneRecv"]
    /\ UNCHANGED <<invocations, mu, quitTask, panicked>>
    /\ ForceOnly
    /\ UNCHANGED nonDaemonVars

\* the end of a ForceInterrupt step: a panic ends the process when it is
\* raised in the interrupter's goroutine; QuitDaemonGracefully recovers it
\* and returns without daemon.mu.Unlock()
ForceStep(rec, nextPc) ==
    LET i == forceInterrupt.inv
        finished == nextPc = "none"
    IN  /\ invocations' = [invocations EXCEPT ![i] = rec]
        /\ IF WaitGroupPanics(rec)
           THEN /\ panicked' = (mu = "timeout")
                /\ mu' = IF mu = "quit" THEN "abandoned" ELSE mu
                /\ forceInterrupt' = NoForce
                /\ quitTask' = IF mu = "quit" THEN [quitTask EXCEPT !.pc = "done"]
                               ELSE quitTask
           ELSE /\ panicked' = FALSE
                /\ forceInterrupt' = IF finished THEN NoForce
                                     ELSE [forceInterrupt EXCEPT !.pc = nextPc]
                /\ mu' = IF finished /\ mu = "timeout" THEN "free" ELSE mu
                /\ quitTask' = IF finished /\ mu = "quit"
                               THEN [quitTask EXCEPT !.visited = @ \cup {i}]
                               ELSE quitTask

\* Invocation.ForceInterrupt: invocation.DoneUploadFile(err) in the loop
ForceDoneUpload ==
    /\ ProcessAlive
    /\ forceInterrupt.pc = "doneUpload"
    /\ ForceStep(DoneUploadFile(invocations[forceInterrupt.inv], TRUE), "load")
    /\ ForceOnly
    /\ UNCHANGED nonDaemonVars

\* Invocation.ForceInterrupt: invocation.DoneRecvObj(err)
ForceDoneRecv ==
    /\ ProcessAlive
    /\ forceInterrupt.pc = "doneRecv"
    /\ ForceStep(DoneRecvObj(invocations[forceInterrupt.inv], TRUE), "none")
    /\ ForceOnly
    /\ UNCHANGED nonDaemonVars

TaskOnly == UNCHANGED <<invocations, activeInvocations, isUnavailable,
                        reconnectClosed, chanToUpload, uploadStream,
                        recvStream, panicked>>

\* QuitDaemonGracefully: close(daemon.quitDaemonChan)
QuitClose ==
    /\ ProcessAlive
    /\ ~quitClosed
    /\ quitClosed' = TRUE
    /\ quitTask' = [quitTask EXCEPT !.pc = "lock"]
    /\ UNCHANGED <<mu, forceInterrupt>>
    /\ TaskOnly
    /\ UNCHANGED nonDaemonVars

\* QuitDaemonGracefully: daemon.mu.Lock()
QuitLock ==
    /\ ProcessAlive
    /\ quitTask.pc = "lock"
    /\ mu = "free"
    /\ mu' = "quit"
    /\ quitTask' = [quitTask EXCEPT !.pc = "interrupt"]
    /\ UNCHANGED <<quitClosed, forceInterrupt>>
    /\ TaskOnly
    /\ UNCHANGED nonDaemonVars

\* QuitDaemonGracefully: ForceInterrupt of the next active invocation
QuitForce(i) ==
    /\ ProcessAlive
    /\ quitTask.pc = "interrupt"
    /\ forceInterrupt = NoForce
    /\ i \in activeInvocations \ quitTask.visited
    /\ forceInterrupt' = [inv |-> i, pc |-> "load"]
    /\ UNCHANGED <<mu, quitClosed, quitTask>>
    /\ TaskOnly
    /\ UNCHANGED nonDaemonVars

\* QuitDaemonGracefully: daemon.mu.Unlock() after the loop
QuitUnlock ==
    /\ ProcessAlive
    /\ quitTask.pc = "interrupt"
    /\ forceInterrupt = NoForce
    /\ activeInvocations \subseteq quitTask.visited
    /\ mu' = "free"
    /\ quitTask' = [quitTask EXCEPT !.pc = "done"]
    /\ UNCHANGED <<quitClosed, forceInterrupt>>
    /\ TaskOnly
    /\ UNCHANGED nonDaemonVars

DaemonNext ==
    \/ \E i \in 1..NumInv, cpp \in BOOLEAN : HandleInvocationAccept(i, cpp)
    \/ \E i \in 1..NumInv : HandleInvocationRegister(i)
    \/ \E i \in 1..NumInv, ok \in BOOLEAN : CompileCollect(i, ok)
    \/ \E i \in 1..NumInv : StartSessionCheck(i)
    \/ \E i \in 1..NumInv, ok \in BOOLEAN, n \in 0..MaxUploads : StartSessionRpc(i, ok, n)
    \/ \E i \in 1..NumInv : UploadFilesAdd(i)
    \/ \E i \in 1..NumInv : UploadFilesWait(i)
    \/ \E i \in 1..NumInv : WaitForCompiledObj(i)
    \/ \E i \in 1..NumInv : HandleInvocationUnregister(i)
    \/ \E i \in 1..NumInv, disabled \in BOOLEAN : InvokeLocalCompilation(i, disabled)
    \/ UploadTake
    \/ UploadStop
    \/ \E outcome \in {"ok", "err", "unauth"} : UploadDone(outcome)
    \/ \E i \in 1..NumInv, err \in BOOLEAN : RecvObj(i, err)
    \/ RecvStop
    \/ OnRemoteBecameUnavailable
    \/ ReconnectRemote
    \/ \E i \in 1..NumInv : TimeoutForce(i)
    \/ ForceLoad
    \/ ForceDoneUpload
    \/ ForceDoneRecv
    \/ QuitClose
    \/ QuitLock
    \/ \E i \in 1..NumInv : QuitForce(i)
    \/ QuitUnlock

(***************************************************************************)
(* The worker: sessions of its clients from StartCompilationSession to the *)
(* compiled object on the ready channel, with the files of each client,    *)
(* the src cache and the obj cache.                                        *)
(***************************************************************************)
NumSessions == 3
MaxLaunchers == 2
MaxOpenSessions == 2
MaxHanged == 1
MaxBroken == 1

fsFileStateJustCreated == "JustCreated"
fsFileStateUploading   == "Uploading"
fsFileStateUploaded    == "Uploaded"
fsFileStateUploadError == "UploadError"

\* a client file name the client has no fileInClientDir for
NoFile == [state |-> "absent", fileSHA256 |-> EmptySHA256, fileSize |-> 0,
           uploaded |-> FALSE]

\* session.objCacheKey of a session created for each request: MakeObjCacheKey
\* over the request's compiler, arguments and input file and over
\* session.files, whose sha256 and size are those the request names
ObjCacheKeys ==
    [r \in 1..Len(Requests) |->
        MakeObjCacheKey(Requests[r].Compiler, Requests[r].CompilerArgs,
            [k \in 1..Len(Requests[r].RequiredFiles) |->
                [fileSHA256 |-> Requests[r].RequiredFiles[k].SHA256,
                 fileSize |-> Requests[r].RequiredFiles[k].FileSize]],
            Requests[r].InputFile)]

\* two requests for the same translation unit: the same compiler, the same
\* input file name and bytes, the same dependencies byte for byte, and the
\* same arguments once the include paths are left out
SameCompilation(in1, in2) ==
    /\ in1.Compiler = in2.Compiler
    /\ Base(in1.InputFile) = Base(in2.InputFile)
    /\ WithoutIncludePaths(in1.CompilerArgs) = WithoutIncludePaths(in2.CompilerArgs)
    /\ Len(in1.RequiredFiles) = Len(in2.RequiredFiles)
    /\ \A k \in 1..Len(in1.RequiredFiles) :
           /\ in1.RequiredFiles[k].SHA256 = in2.RequiredFiles[k].SHA256
           /\ in1.RequiredFiles[k].FileSize = in2.RequiredFiles[k].FileSize

\* the requests that ask for the same compilation as request r
SameCompilations ==
    [r \in 1..Len(Requests) |->
        {q \in 1..Len(Requests) : SameCompilation(Requests[q], Requests[r])}]

\* whether the same compilation as request r was compiled with exit code 0
\* before, its object being in the obj cache since
CompiledBefore(cache, r) ==
    \E q \in SameCompilations[r] : ObjCacheKeys[q] \in cache

\* whether request in1 is request in2 after only the content of the input
\* file was edited: the same compiler, arguments and input file name, every
\* other file byte for byte the same
EditOf(in1, in2) ==
    /\ in1.Compiler = in2.Compiler
    /\ in1.CompilerArgs = in2.CompilerArgs
    /\ Base(in1.InputFile) = Base(in2.InputFile)
    /\ Len(in1.RequiredFiles) = Len(in2.RequiredFiles)
    /\ \A k \in 1..Len(in1.RequiredFiles) :
           /\ Base(in1.RequiredFiles[k].FileName) =
                  Base(in2.RequiredFiles[k].FileName)
           /\ (in1.RequiredFiles[k].FileName = in1.InputFile)
                  = (in2.RequiredFiles[k].FileName = in2.InputFile)
           /\ (in1.RequiredFiles[k].SHA256 # in2.RequiredFiles[k].SHA256)
                  = (in1.RequiredFiles[k].FileName = in1.InputFile)

\* the requests of which request r is an edit of the input file
EditsOf ==
    [r \in 1..Len(Requests) |->
        {q \in 1..Len(Requests) : EditOf(Requests[r], Requests[q])}]

\* whether a request names a path the client registered with another sha256
NamesChangedFile(files, in) ==
    \E k \in 1..Len(in.RequiredFiles) :
        LET known == files[in.RequiredFiles[k].FileName]
        IN /\ known.state # "absent"
           /\ known.fileSHA256 # in.RequiredFiles[k].SHA256

\* how request r stands to what the worker compiled before, when it arrives:
\* "same" if its client registered the files of a compiled request that r is
\* an edit of, "other" if such a request was compiled, the client has
\* registered none of r's files, and the src cache holds every file of r but
\* the edited one, "no" otherwise
EditedAfterCompiled(cache, srcCache, files, r) ==
    LET in == Requests[r]
        compiled == {q \in EditsOf[r] : ObjCacheKeys[q] \in cache}
    IN IF \E q \in compiled :
              /\ Requests[q].ClientID = in.ClientID
              /\ \A k \in 1..Len(Requests[q].RequiredFiles) :
                     LET meta == Requests[q].RequiredFiles[k]
                     IN /\ files[meta.FileName].state # "absent"
                        /\ files[meta.FileName].fileSHA256 = meta.SHA256
       THEN "same"
       ELSE IF /\ compiled # {}
               /\ \A k \in 1..Len(in.RequiredFiles) :
                      LET meta == in.RequiredFiles[k]
                      IN /\ files[meta.FileName].state = "absent"
                         /\ (meta.SHA256 \in srcCache)
                                = (meta.FileName # in.InputFile)
       THEN "other"
       ELSE "no"

\* a sessionID no request has arrived for
NoSession ==
    [pc |-> "none", request |-> 0, clientID |-> "", files |-> <<>>,
     objCacheKey |-> EmptySHA256, objCacheExists |-> FALSE,
     compilationStarted |-> 0, registered |-> FALSE, closed |-> FALSE,
     OutputFile |-> <<>>, compilerExitCode |-> 0,
     compilerStdout |-> "", compilerStderr |-> "",
     index |-> 0, reply |-> <<>>,
     launchers |-> 0, launches |-> 0, pushes |-> 0, compiledBefore |-> FALSE,
     conflict |-> FALSE, edited |-> "no"]

\* a variant of the registration of a request's files that lets a file name
\* known with another sha256 pass
RECURSIVE StartUsingFilesUnchecked(_, _)
StartUsingFilesUnchecked(files, metas) ==
    IF metas = <<>> THEN [ok |-> TRUE, files |-> files]
    ELSE LET meta == Head(metas)
         IN IF files[meta.FileName].state = "absent"
            THEN StartUsingFilesUnchecked(
                     [files EXCEPT ![meta.FileName] =
                         [state |-> fsFileStateJustCreated,
                          fileSHA256 |-> meta.SHA256,
                          fileSize |-> meta.FileSize,
                          uploaded |-> FALSE]],
                     Tail(metas))
            ELSE StartUsingFilesUnchecked(files, Tail(metas))

\* Client.StartUsingFileInSession for every file of a request, in order:
\* the client's files afterwards, and whether a file name was known with
\* another sha256
RECURSIVE StartUsingFilesInSession(_, _)
StartUsingFilesInSession(files, metas) ==
    IF metas = <<>> THEN [ok |-> TRUE, files |-> files]
    ELSE LET meta == Head(metas)
             known == files[meta.FileName]
         IN IF known.state = "absent"
            THEN StartUsingFilesInSession(
                     [files EXCEPT ![meta.FileName] =
                         [state |-> fsFileStateJustCreated,
                          fileSHA256 |-> meta.SHA256,
                          fileSize |-> meta.FileSize,
                          uploaded |-> FALSE]],
                     Tail(metas))
            ELSE IF known.fileSHA256 # meta.SHA256
            THEN [ok |-> FALSE, files |-> files]
            ELSE StartUsingFilesInSession(files, Tail(metas))

\* a variant of the src cache that never holds a file
NeverInSrcCache(cache, fileSHA256) == FALSE

\* SrcFileCache.CreateHardLinkFromCache: whether the file was in the cache
\* and is now linked into the client's directory
CreateHardLinkFromCache(cache, fileSHA256) == fileSHA256 \in cache

\* ObjFileCache.LookupInCache: the path of the stored object, empty if none
LookupInCache(cache, key) ==
    IF key \in cache THEN <<"obj-cache", key>> ELSE <<>>

\* ObjFileCache.GenerateObjOutFileName
GenerateObjOutFileName(clientID, sessionID) ==
    <<"compiler-out", clientID, sessionID>>

\* a variant of the obj cache hit that leaves compilationStarted clear
HitPathSessionNotStarted(session, pathInObjCache) ==
    [session EXCEPT !.objCacheExists = TRUE, !.OutputFile = pathInObjCache]

\* StartCompilationSession, the obj cache hit: what it stores in the session
HitPathSession(session, pathInObjCache) ==
    [session EXCEPT !.objCacheExists = TRUE, !.OutputFile = pathInObjCache,
                    !.compilationStarted = 1]

\* a variant of the first request of a file that leaves its state as it was
CreatedStaysCreated(file) == file

\* file.state.CompareAndSwap(fsFileStateJustCreated, fsFileStateUploading),
\* when it succeeds
CreatedToUploading(file) == [file EXCEPT !.state = fsFileStateUploading]

\* a variant of the launch guard that lets every launcher through
NeverStarted(session) == FALSE

\* session.compilationStarted.Swap(1) != 0
SwapCompilationStarted(session) == session.compilationStarted # 0

\* Client.GetSessionsNotStartedCompilation
GetSessionsNotStartedCompilation(sess, clientID) ==
    {s \in 1..NumSessions :
        /\ sess[s].clientID = clientID
        /\ sess[s].registered
        /\ sess[s].compilationStarted = 0}

\* Session.StartCompilingObjIfPossible: whether the launcher goroutine is
\* started
StartCompilingObjIfPossible(session, files) ==
    \A k \in 1..Len(session.files) :
        files[session.files[k]].state # fsFileStateUploading

\* launchCompilerOnServerOnReadySessions: the launcher goroutines it starts
\* (a session keeps at most MaxLaunchers of them waiting)
launchCompilerOnServerOnReadySessions(sess, files, clientID) ==
    [s \in 1..NumSessions |->
        IF /\ s \in GetSessionsNotStartedCompilation(sess, clientID)
           /\ StartCompilingObjIfPossible(sess[s], files)
           /\ sess[s].launchers < MaxLaunchers
        THEN [sess[s] EXCEPT !.launchers = @ + 1]
        ELSE sess[s]]

\* a worker that has just started: no client has sent anything
ServerInit ==
    /\ sessions = [s \in 1..NumSessions |-> NoSession]
    /\ clientFiles = [c \in ClientIDs |-> [f \in FileNames |-> NoFile]]
    /\ objFileCache = {}
    /\ srcFileCache = {}
    /\ uploads = {}
    /\ chanReadySessions = [c \in ClientIDs |-> <<>>]
    /\ faults = [hanged |-> 0, broken |-> 0]

\* whether the reply of a session asks for the upload of a client file name
ListsFile(session, fileName) ==
    \E k \in 1..Len(session.reply) :
        session.files[session.reply[k].index + 1] = fileName

\* the sessions in progress: created, and neither rejected nor closed
OpenSessions(sess) ==
    {s \in 1..NumSessions : sess[s].pc \in {"loop", "replied"}}

\* NoccServer.StartCompilationSession up to the obj cache lookup:
\* CreateNewSession, MakeObjCacheKey, and the whole reply on a cache hit
StartCompilationSession(s, r) ==
    /\ sessions[s].pc = "none"
    /\ IF s = 1 THEN TRUE ELSE sessions[s - 1].pc # "none"
    /\ Cardinality(OpenSessions(sessions)) < MaxOpenSessions
    /\ LET in == Requests[r]
           clientID == in.ClientID
           created == StartUsingFilesInSession(clientFiles[clientID],
                                               in.RequiredFiles)
           names == [k \in 1..Len(in.RequiredFiles) |->
                        in.RequiredFiles[k].FileName]
           key == ObjCacheKeys[r]
           pathInObjCache == LookupInCache(objFileCache, key)
           newSession ==
               [NoSession EXCEPT
                   !.request = r, !.clientID = clientID, !.files = names,
                   !.objCacheKey = key,
                   !.compiledBefore = CompiledBefore(objFileCache, r),
                   !.conflict = NamesChangedFile(clientFiles[clientID], in),
                   !.edited = EditedAfterCompiled(objFileCache, srcFileCache,
                                  clientFiles[clientID], r)]
       IN IF ~created.ok
          THEN /\ sessions' = [sessions EXCEPT ![s] =
                       [NoSession EXCEPT !.pc = "rejected", !.request = r,
                                         !.clientID = clientID,
                                         !.conflict = newSession.conflict,
                                         !.edited = newSession.edited]]
               /\ clientFiles' = [clientFiles EXCEPT ![clientID] = created.files]
               /\ UNCHANGED chanReadySessions
          ELSE IF Len(pathInObjCache) # 0
          THEN /\ sessions' = [sessions EXCEPT ![s] =
                       [HitPathSession(newSession, pathInObjCache) EXCEPT
                           !.registered = TRUE, !.pushes = @ + 1,
                           !.pc = "replied"]]
               /\ clientFiles' = [clientFiles EXCEPT ![clientID] = created.files]
               /\ chanReadySessions' = [chanReadySessions EXCEPT
                       ![clientID] = Append(@, s)]
          ELSE /\ sessions' = [sessions EXCEPT ![s] =
                       [newSession EXCEPT !.pc = "loop", !.index = 1]]
               /\ clientFiles' = [clientFiles EXCEPT ![clientID] = created.files]
               /\ UNCHANGED chanReadySessions
    /\ UNCHANGED <<objFileCache, srcFileCache, uploads, faults>>
    /\ UNCHANGED nonServerVars

\* StartCompilationSession, one turn of the loop over session.files: the
\* three CompareAndSwap of the file's state, in the order of the code
StartSessionFile(s, hanged) ==
    /\ sessions[s].pc = "loop"
    /\ sessions[s].index <= Len(sessions[s].files)
    /\ LET session == sessions[s]
           clientID == session.clientID
           name == session.files[session.index]
           file == clientFiles[clientID][name]
           entry(why) == [index |-> session.index - 1, why |-> why,
                          afterUploaded |-> file.uploaded]
           asked(why) == [session EXCEPT !.index = @ + 1,
                                         !.reply = Append(@, entry(why))]
           skipped == [session EXCEPT !.index = @ + 1]
       IN \* Client.IsFileUploadHanged is asked of a file being uploaded; the
          \* deadline is longer than the handler that asked for the upload
          /\ hanged => /\ file.state = fsFileStateUploading
                       /\ faults.hanged < MaxHanged
                       /\ \A t \in 1..NumSessions :
                              (sessions[t].pc = "loop"
                                   /\ sessions[t].clientID = clientID)
                                  => ~ListsFile(sessions[t], name)
          /\ faults' = IF hanged THEN [faults EXCEPT !.hanged = @ + 1]
                       ELSE faults
          /\ IF file.state = fsFileStateJustCreated
             THEN IF CreateHardLinkFromCache(srcFileCache, file.fileSHA256)
                  THEN \* CreateHardLinkFromCache succeeded
                       /\ clientFiles' = [clientFiles EXCEPT
                               ![clientID][name] =
                                   [file EXCEPT !.state = fsFileStateUploaded]]
                       /\ sessions' = [sessions EXCEPT ![s] = skipped]
                  ELSE /\ clientFiles' = [clientFiles EXCEPT
                               ![clientID][name] = CreatedToUploading(file)]
                       /\ sessions' = [sessions EXCEPT ![s] = asked("created")]
             ELSE IF file.state = fsFileStateUploading
             THEN IF ~hanged
                  THEN /\ sessions' = [sessions EXCEPT ![s] = skipped]
                       /\ UNCHANGED clientFiles
                  ELSE /\ sessions' = [sessions EXCEPT ![s] = asked("hanged")]
                       /\ UNCHANGED clientFiles
             ELSE IF file.state = fsFileStateUploadError
             THEN /\ clientFiles' = [clientFiles EXCEPT ![clientID][name] =
                          [file EXCEPT !.state = fsFileStateUploading]]
                  /\ sessions' = [sessions EXCEPT ![s] = asked("error")]
             ELSE /\ sessions' = [sessions EXCEPT ![s] = skipped]
                  /\ UNCHANGED clientFiles
    /\ UNCHANGED <<objFileCache, srcFileCache, uploads, chanReadySessions>>
    /\ UNCHANGED nonServerVars

NoSweepAfterRegistration(sess, files, clientID) == sess

\* StartCompilationSession after RegisterCreatedSession:
\* launchCompilerOnServerOnReadySessions(s, client)
SweepAfterRegistration(sess, files, clientID) ==
    launchCompilerOnServerOnReadySessions(sess, files, clientID)

\* StartCompilationSession after the loop: RegisterCreatedSession, the sweep
\* over the client's sessions, and the reply, which the client answers by
\* uploading the files it lists
StartSessionReply(s) ==
    /\ sessions[s].pc = "loop"
    /\ sessions[s].index > Len(sessions[s].files)
    /\ LET registered == [sessions EXCEPT ![s] =
                             [@ EXCEPT !.registered = TRUE, !.pc = "replied"]]
       IN sessions' = SweepAfterRegistration(
                          registered, clientFiles[sessions[s].clientID],
                          sessions[s].clientID)
    /\ uploads' = uploads \cup
           {<<s, sessions[s].reply[k].index>> : k \in 1..Len(sessions[s].reply)}
    /\ UNCHANGED <<clientFiles, objFileCache, srcFileCache, chanReadySessions,
                   faults>>
    /\ UNCHANGED nonServerVars

\* Client.GetSession: a registered session that was not closed
GetSession(sess, s) == sess[s].registered /\ ~sess[s].closed

\* NoccServer.UploadFileStream, one file from its first chunk to the end:
\* received completely (ok) or broken off
UploadFileStream(s, index, ok) ==
    /\ <<s, index>> \in uploads
    /\ ~ok => faults.broken < MaxBroken
    /\ faults' = IF ok THEN faults ELSE [faults EXCEPT !.broken = @ + 1]
    /\ uploads' = uploads \ {<<s, index>>}
    /\ LET clientID == sessions[s].clientID
           name == sessions[s].files[index + 1]
           file == clientFiles[clientID][name]
           stored(state) == [clientFiles[clientID] EXCEPT ![name] =
                                [file EXCEPT !.state = state]]
           received == [clientFiles[clientID] EXCEPT ![name] =
                           [file EXCEPT !.state = fsFileStateUploaded,
                                        !.uploaded = TRUE]]
       IN IF ~GetSession(sessions, s)
          THEN UNCHANGED <<sessions, clientFiles, srcFileCache>>
          ELSE IF ~ok
          THEN /\ clientFiles' = [clientFiles EXCEPT ![clientID] =
                       stored(fsFileStateUploadError)]
               /\ UNCHANGED <<sessions, srcFileCache>>
          ELSE /\ clientFiles' = [clientFiles EXCEPT ![clientID] = received]
               /\ sessions' = launchCompilerOnServerOnReadySessions(
                                  sessions, received, clientID)
               /\ srcFileCache' = srcFileCache \cup {file.fileSHA256}
    /\ UNCHANGED <<objFileCache, chanReadySessions>>
    /\ UNCHANGED nonServerVars

\* a compiler that prints nothing
NoCompilerOutput == <<"", "">>

\* what ExecCompiler captures of a compiler that ends with the exit code:
\* its stdout and its stderr
ExecCompilerOutputs(exitCode) ==
    IF exitCode = 0 THEN {<<"", "">>, <<"", "warning">>}
    ELSE {<<"", "error">>}

\* Session.LaunchCompilerWhenPossible, one goroutine started by a sweep: it
\* returns if the compilation was started, else it runs the compiler to its
\* exit code and output, saves the object and pushes the session
LaunchCompilerWhenPossible(s, exitCode, output) ==
    /\ sessions[s].launchers > 0
    /\ LET session == [sessions[s] EXCEPT !.launchers = @ - 1]
       IN IF SwapCompilationStarted(session)
          THEN /\ sessions' = [sessions EXCEPT ![s] = session]
               /\ UNCHANGED <<objFileCache, chanReadySessions>>
          ELSE /\ sessions' = [sessions EXCEPT ![s] =
                       [session EXCEPT
                           !.compilationStarted = 1,
                           !.OutputFile = GenerateObjOutFileName(
                                              session.clientID, s),
                           !.compilerExitCode = exitCode,
                           !.compilerStdout = output[1],
                           !.compilerStderr = output[2],
                           !.launches = @ + 1,
                           !.pushes = @ + 1]]
               /\ objFileCache' =
                      IF ~IsEmpty(session.objCacheKey) /\ exitCode = 0
                      THEN objFileCache \cup {session.objCacheKey}
                      ELSE objFileCache
               /\ chanReadySessions' = [chanReadySessions EXCEPT
                      ![session.clientID] = Append(@, s)]
    /\ UNCHANGED <<clientFiles, srcFileCache, uploads, faults>>
    /\ UNCHANGED nonServerVars

\* Client.CloseSession: the session leaves client.sessions; what stays of it
\* is what a launcher goroutine still holding it reads
CloseSession(session) ==
    [NoSession EXCEPT !.pc = "closed", !.closed = TRUE,
                      !.clientID = session.clientID,
                      !.compilationStarted = session.compilationStarted,
                      !.launchers = session.launchers]

\* NoccServer.RecvCompiledObjStream, one ready session: the result is sent
\* and the session is closed
RecvCompiledObjStream(clientID) ==
    /\ chanReadySessions[clientID] # <<>>
    /\ LET s == Head(chanReadySessions[clientID])
       IN sessions' = [sessions EXCEPT ![s] = CloseSession(sessions[s])]
    /\ chanReadySessions' = [chanReadySessions EXCEPT ![clientID] = Tail(@)]
    /\ UNCHANGED <<clientFiles, objFileCache, srcFileCache, uploads, faults>>
    /\ UNCHANGED nonServerVars

ServerNext ==
    \/ \E s \in 1..NumSessions, r \in 1..Len(Requests) :
           StartCompilationSession(s, r)
    \/ \E s \in 1..NumSessions, hanged \in BOOLEAN : StartSessionFile(s, hanged)
    \/ \E s \in 1..NumSessions : StartSessionReply(s)
    \/ \E s \in 1..NumSessions, index \in 0..1, ok \in BOOLEAN :
           UploadFileStream(s, index, ok)
    \/ \E s \in 1..NumSessions, exitCode \in {0, 1} :
           \E output \in ExecCompilerOutputs(exitCode) :
               LaunchCompilerWhenPossible(s, exitCode, output)
    \/ \E clientID \in ClientIDs : RecvCompiledObjStream(clientID)

(***************************************************************************)
(* The dependency file and the steps of one invocation.                    *)
(***************************************************************************)
\* escapeMakefileSpaces: newline, space and colon get a backslash
RECURSIVE escapeMakefileSpaces(_)
escapeMakefileSpaces(depItemName) ==
    IF depItemName = <<>> THEN <<>>
    ELSE (IF Head(depItemName) \in {10, 32, 58} THEN <<92>> ELSE <<>>)
             \o <<Head(depItemName)>> \o escapeMakefileSpaces(Tail(depItemName))

\* DepFile.WriteToBytes, the dependencies of one target after the first
RECURSIVE WriteDepList(_)
WriteDepList(deps) ==
    IF deps = <<>> THEN <<>>
    ELSE <<32, 92, 10, 32, 32>> \o escapeMakefileSpaces(Head(deps))
             \o WriteDepList(Tail(deps))

\* DepFile.WriteToBytes
RECURSIVE WriteToBytes(_)
WriteToBytes(DTargets) ==
    IF DTargets = <<>> THEN <<>>
    ELSE LET dTarget == DTargets[Len(DTargets)]
             before == WriteToBytes(SubSeq(DTargets, 1, Len(DTargets) - 1))
         IN before \o (IF Len(before) > 0 THEN <<10>> ELSE <<>>)
                \o dTarget.TargetName \o <<58>>
                \o (IF Len(dTarget.TargetDepList) > 0
                    THEN <<32>> \o escapeMakefileSpaces(dTarget.TargetDepList[1])
                             \o WriteDepList(Tail(dTarget.TargetDepList))
                    ELSE <<>>)
                \o <<10>>

\* DepCmdFlags.ShouldGenerateDepFile
ShouldGenerateDepFile(deps) ==
    deps.flagMD \/ deps.flagMMD \/ deps.flagMF # <<>>

\* DepCmdFlags.calcDefaultTargetName
calcDefaultTargetName(invocation) == invocation.objOutFile

\* DepCmdFlags.calcOutputDepFileName
calcOutputDepFileName(deps, invocation) ==
    IF deps.flagMF # <<>> THEN deps.flagMF
    ELSE IF invocation.objOutFile # <<>>
    THEN ReplaceFileExt(invocation.objOutFile, <<46, 100>>)
    ELSE ReplaceFileExt(Base(invocation.cppInFile), <<46, 100>>)

\* DepCmdFlags.calcDepListFromHFiles
calcDepListFromHFiles(invocation, hFiles) ==
    <<quoteMakefileTarget(invocation.cppInFile)>>
        \o [k \in 1..Len(hFiles) |-> quoteMakefileTarget(hFiles[k])]

\* a variant of the target of the dependency file that ignores -MT and -MQ
TargetNameOfObjOnly(deps, invocation) == calcDefaultTargetName(invocation)

\* DepCmdFlags.GenerateAndSaveDepFile: the target of the first rule
TargetNameOf(deps, invocation) ==
    IF Len(deps.flagMT) = 0 THEN calcDefaultTargetName(invocation)
    ELSE deps.flagMT

\* DepCmdFlags.GenerateAndSaveDepFile: the file name and the rules written
GenerateAndSaveDepFile(deps, invocation, hFiles) ==
    LET depListMainTarget == calcDepListFromHFiles(invocation, hFiles)
        phony == IF deps.flagMP
                 THEN [k \in 1..(Len(depListMainTarget) - 1) |->
                          [TargetName |->
                               escapeMakefileSpaces(depListMainTarget[k + 1]),
                           TargetDepList |-> <<>>]]
                 ELSE <<>>
    IN [name |-> calcOutputDepFileName(deps, invocation),
        DTargets |-> <<[TargetName |-> TargetNameOf(deps, invocation),
                        TargetDepList |-> depListMainTarget]>> \o phony]

\* a daemon that no request has reached
HandlerIdle ==
    /\ hReq = [cwd |-> DirA, cmdLine |-> BaseCmdLine, remotes |-> 1,
               unavailable |-> {}, disableLocalCompiler |-> FALSE]
    /\ hPc = "idle"
    /\ hInvocation = CreateInvocation(DirA)
    /\ hRemote = [chosen |-> -1, sessions |-> [w \in 0..(MaxRemotes - 1) |-> 0],
                  result |-> NoReply, err |-> FALSE, hFiles |-> <<>>,
                  depFile |-> "none"]
    /\ hLocal = [runs |-> 0, result |-> NoReply]
    /\ hDepFile = NoDepFile
    /\ hReply = NoReply

\* a request arrives at a daemon configured with some workers, some of them
\* unavailable, and with or without the local fallback
HandlerInit ==
    /\ hReq \in [cwd : {DirA}, cmdLine : CmdLines, remotes : 0..MaxRemotes,
                 unavailable : SUBSET (0..(MaxRemotes - 1)),
                 disableLocalCompiler : BOOLEAN]
    /\ hReq.unavailable \subseteq 0..(hReq.remotes - 1)
    /\ hPc = "accepted"
    /\ hInvocation = CreateInvocation(DirA)
    /\ hRemote = [chosen |-> -1, sessions |-> [w \in 0..(MaxRemotes - 1) |-> 0],
                  result |-> NoReply, err |-> FALSE, hFiles |-> <<>>,
                  depFile |-> "none"]
    /\ hLocal = [runs |-> 0, result |-> NoReply]
    /\ hDepFile = NoDepFile
    /\ hReply = NoReply

\* Daemon.HandleInvocation up to the switch over invocation.invokeType; an
\* index out of range while parsing ends the daemon
HandleInvocation ==
    /\ hPc = "accepted"
    /\ \E invocation \in {ParseCmdLineInvocation(hReq.cwd, hReq.cmdLine)} :
          /\ hInvocation' = invocation
          /\ hPc' = IF invocation.panic THEN "crashed"
                    ELSE IF invocation.invokeType = invokedForCompilingCpp
                    THEN "remote"
                    ELSE IF invocation.invokeType = invokedForCompilingPch
                    THEN "localPch"
                    ELSE "local"
    /\ UNCHANGED <<hReq, hRemote, hLocal, hDepFile, hReply>>
    /\ UNCHANGED nonHandlerVars

\* Daemon.invokeForRemoteCompiling up to CompileCppRemotely: the worker is
\* chosen from the input file; none, or an unavailable one, is an error
invokeForRemoteCompiling ==
    /\ hPc = "remote"
    /\ IF hReq.remotes = 0
       THEN /\ hPc' = "localFallback"
            /\ hRemote' = [hRemote EXCEPT !.err = TRUE]
       ELSE LET chosen == ChooseRemoteIndex(hInvocation.cppInFile, hReq.remotes)
            IN IF chosen \in hReq.unavailable
               THEN /\ hPc' = "localFallback"
                    /\ hRemote' = [hRemote EXCEPT !.chosen = chosen,
                                                  !.err = TRUE]
               ELSE /\ hPc' = "compile"
                    /\ hRemote' = [hRemote EXCEPT !.chosen = chosen]
    /\ UNCHANGED <<hReq, hInvocation, hLocal, hDepFile, hReply>>
    /\ UNCHANGED nonHandlerVars

\* CompileCppRemotely, `go func() { ... GenerateAndSaveDepFile ... }()`:
\* whether the goroutine that writes the dependency file is started
DepFileGoroutine(deps) ==
    IF ShouldGenerateDepFile(deps) THEN "started" ELSE "none"

\* CompileCppRemotely and what HandleInvocation does with its result:
\* CollectDependentIncludes finds hFiles or fails, the goroutine that
\* writes the dependency file is started, the session runs on the chosen
\* worker and ends with an error or with the result of the remote compiler;
\* an error or an exit code other than 0 goes on to the local compiler
CompileCppRemotely(collected, hFiles, sessionErr, run) ==
    /\ hPc = "compile"
    /\ IF ~collected
       THEN /\ hPc' = "localFallback"
            /\ hRemote' = [hRemote EXCEPT !.err = TRUE]
            /\ UNCHANGED hReply
       ELSE IF sessionErr
       THEN /\ hRemote' = [hRemote EXCEPT
                   !.sessions[hRemote.chosen] = @ + 1,
                   !.err = TRUE, !.hFiles = hFiles,
                   !.depFile = DepFileGoroutine(hInvocation.depsFlags)]
            /\ hPc' = "localFallback"
            /\ UNCHANGED hReply
       ELSE /\ hRemote' = [hRemote EXCEPT
                   !.sessions[hRemote.chosen] = @ + 1,
                   !.result = run, !.hFiles = hFiles,
                   !.depFile = DepFileGoroutine(hInvocation.depsFlags)]
            /\ IF run.ExitCode # 0
               THEN hPc' = "localFallback" /\ UNCHANGED hReply
               ELSE hPc' = "replied" /\ hReply' = run
    /\ UNCHANGED <<hReq, hInvocation, hLocal, hDepFile>>
    /\ UNCHANGED nonHandlerVars

\* the goroutine CompileCppRemotely started: GenerateAndSaveDepFile writes
\* the dependency file
SaveDepFileGoroutine ==
    /\ hRemote.depFile = "started"
    /\ hDepFile' = GenerateAndSaveDepFile(hInvocation.depsFlags, hInvocation,
                                          hRemote.hFiles)
    /\ hRemote' = [hRemote EXCEPT !.depFile = "saved"]
    /\ UNCHANGED <<hReq, hPc, hInvocation, hLocal, hReply>>
    /\ UNCHANGED nonHandlerVars

\* Daemon.InvokeLocalCompilation and what its caller returns: the result of
\* the local compiler, or exit code 1 when the fallback is disabled; after a
\* failed remote compilation a local exit code 0 replaces Stderr by a message
RunCompilerLocally(run) ==
    /\ hPc \in {"local", "localPch", "localFallback"}
    /\ LET result == IF hReq.disableLocalCompiler
                     THEN [ExitCode |-> 1, Stdout |-> NoOutput,
                           Stderr |-> <<"fallback to local compiler disabled">>]
                     ELSE run
       IN /\ hLocal' = IF hReq.disableLocalCompiler THEN hLocal
                       ELSE [runs |-> hLocal.runs + 1, result |-> run]
          /\ hReply' = IF hPc = "localFallback" /\ result.ExitCode = 0
                       THEN [result EXCEPT !.Stderr =
                                <<"compiling remotely failed, but succeeded locally">>]
                       ELSE result
    /\ hPc' = "replied"
    /\ UNCHANGED <<hReq, hInvocation, hRemote, hDepFile>>
    /\ UNCHANGED nonHandlerVars

HandlerNext ==
    \/ HandleInvocation
    \/ invokeForRemoteCompiling
    \/ \E collected \in BOOLEAN, hFiles \in {<<>>, <<PathAX>>},
          sessionErr \in BOOLEAN, run \in CompilerRuns :
           CompileCppRemotely(collected, hFiles, sessionErr, run)
    \/ SaveDepFileGoroutine
    \/ \E run \in CompilerRuns : RunCompilerLocally(run)

(***************************************************************************)
(* The worker and a precompiled header: the sessions of one client that    *)
(* depend on one .nocc-pch file, from StartCompilationSession to the       *)
(* compilation of the real PCH and of the sessions' objects.  The other    *)
(* files of the sessions are on the worker already.                        *)
(***************************************************************************)
fsFileStatePchCompiling    == "PchCompiling"
fsFileStatePchCompiled     == "PchCompiled"
fsFileStatePchCompileError == "PchCompileError"

\* a session that StartCompilationSession has not created; checks, swaps and
\* errors count the goroutines of StartCompilingPchIfPossible that stand
\* before its first Load, before its CompareAndSwap and before its last Load
NoPchSession ==
    [pc |-> "none", compilationStarted |-> 0,
     checks |-> 0, swaps |-> 0, errors |-> 0,
     pch |-> "none", pchErr |-> FALSE,
     wins |-> 0, launches |-> 0, pushes |-> 0]

\* a worker on which no session of the client needs the .nocc-pch yet
PchIdle ==
    /\ pchFile = [state |-> "absent", inSrcCache |-> FALSE,
                  output |-> FALSE, inObjCache |-> FALSE]
    /\ pchSessions = [s \in 1..NumPchSessions |-> NoPchSession]
    /\ pchUploads = {}
    /\ pchStats = [runs |-> 0, compiled |-> 0, hanged |-> 0, broken |-> 0]

\* the worker when the client's first session arrives: another client may
\* have uploaded the same .nocc-pch (src cache) and had the same PCH
\* compiled (obj cache)
PchInit ==
    /\ \E inSrcCache \in BOOLEAN, inObjCache \in BOOLEAN :
           pchFile = [state |-> "absent", inSrcCache |-> inSrcCache,
                      output |-> FALSE, inObjCache |-> inObjCache]
    /\ pchSessions = [s \in 1..NumPchSessions |-> NoPchSession]
    /\ pchUploads = {}
    /\ pchStats = [runs |-> 0, compiled |-> 0, hanged |-> 0, broken |-> 0]

\* launchCompilerOnServerOnReadySessions with
\* Session.StartCompilingObjIfPossible: every registered session whose
\* compilation has not started and that has no file being uploaded starts a
\* goroutine of StartCompilingPchIfPossible (a session keeps at most
\* MaxPchCalls of them waiting)
PchSweep(sess, state) ==
    [s \in 1..NumPchSessions |->
        IF /\ sess[s].pc = "registered"
           /\ sess[s].compilationStarted = 0
           /\ state # fsFileStateUploading
           /\ sess[s].checks + sess[s].swaps + sess[s].errors < MaxPchCalls
        THEN [sess[s] EXCEPT !.checks = @ + 1]
        ELSE sess[s]]

\* NoccServer.StartCompilationSession of a session whose requiredPchFile is
\* the .nocc-pch: CreateNewSession, the loop over the files, registration,
\* the sweep and the reply, which the client answers by uploading the file
\* if the reply lists it
PchStartSession(s, hanged) ==
    /\ pchSessions[s].pc = "none"
    /\ \A t \in 1..(s - 1) : pchSessions[t].pc # "none"
    /\ LET state == IF pchFile.state = "absent" THEN fsFileStateJustCreated
                    ELSE pchFile.state
           restored == state = fsFileStateJustCreated /\ pchFile.inSrcCache
           asked == \/ state = fsFileStateJustCreated /\ ~pchFile.inSrcCache
                    \/ state = fsFileStateUploading /\ hanged
                    \/ state = fsFileStateUploadError
           after == IF restored THEN fsFileStateUploaded
                    ELSE IF asked THEN fsFileStateUploading
                    ELSE state
           registered == [pchSessions EXCEPT ![s].pc = "registered"]
       IN  /\ hanged => /\ state = fsFileStateUploading
                        /\ pchStats.hanged < MaxPchHanged
           /\ pchStats' = IF hanged THEN [pchStats EXCEPT !.hanged = @ + 1]
                          ELSE pchStats
           /\ pchFile' = [pchFile EXCEPT !.state = after]
           /\ pchSessions' = PchSweep(registered, after)
           /\ pchUploads' = IF asked THEN pchUploads \cup {s} ELSE pchUploads
    /\ UNCHANGED nonPchVars

\* NoccServer.UploadFileStream for the .nocc-pch, from its first chunk to
\* the end: received completely (ok) or broken off
PchUploadFileStream(s, ok) ==
    /\ s \in pchUploads
    /\ ~ok => pchStats.broken < MaxPchBroken
    /\ pchUploads' = pchUploads \ {s}
    /\ IF pchSessions[s].pc # "registered"
       THEN UNCHANGED <<pchFile, pchSessions, pchStats>>
       ELSE IF ~ok
       THEN /\ pchFile' = [pchFile EXCEPT !.state = fsFileStateUploadError]
            /\ pchStats' = [pchStats EXCEPT !.broken = @ + 1]
            /\ UNCHANGED pchSessions
       ELSE /\ pchFile' = [pchFile EXCEPT !.state = fsFileStateUploaded,
                                          !.inSrcCache = TRUE]
            /\ pchSessions' = PchSweep(pchSessions, fsFileStateUploaded)
            /\ UNCHANGED pchStats
    /\ UNCHANGED nonPchVars

\* Session.StartCompilingPchIfPossible, `if state.Load() ==
\* fsFileStatePchCompiled`: LaunchCompilerWhenPossible, which compiles the
\* object and pushes the session unless the compilation was started
PchCheckCompiled(s) ==
    /\ pchSessions[s].checks > 0
    /\ pchSessions' = [pchSessions EXCEPT ![s] =
           LET session == [@ EXCEPT !.checks = @ - 1]
           IN  IF pchFile.state # fsFileStatePchCompiled
               THEN [session EXCEPT !.swaps = @ + 1]
               ELSE IF session.compilationStarted # 0 THEN session
               ELSE [session EXCEPT !.compilationStarted = 1,
                                    !.launches = @ + 1, !.pushes = @ + 1]]
    /\ UNCHANGED <<pchFile, pchUploads, pchStats>>
    /\ UNCHANGED nonPchVars

\* Session.StartCompilingPchIfPossible:
\* `state.CompareAndSwap(fsFileStateUploaded, fsFileStatePchCompiling)`
PchCompareAndSwap(state) == state = fsFileStateUploaded

\* Session.StartCompilingPchIfPossible, the CompareAndSwap: the session that
\* wins it goes on to LaunchPchWhenPossible
PchSwap(s) ==
    /\ pchSessions[s].swaps > 0
    /\ pchSessions[s].pch = "none"
    /\ IF PchCompareAndSwap(pchFile.state)
       THEN /\ pchFile' = [pchFile EXCEPT !.state = fsFileStatePchCompiling]
            /\ pchSessions' = [pchSessions EXCEPT
                   ![s].swaps = @ - 1, ![s].pch = "lookup",
                   ![s].wins = @ + 1]
       ELSE /\ pchSessions' = [pchSessions EXCEPT
                   ![s].swaps = @ - 1, ![s].errors = @ + 1]
            /\ UNCHANGED pchFile
    /\ UNCHANGED <<pchUploads, pchStats>>
    /\ UNCHANGED nonPchVars

\* Session.LaunchPchWhenPossible up to the start of the compiler:
\* ParsePchFile, then objFileCache.LookupInCache; a hit is hard-linked to
\* the client's directory (os.Link fails if the file is there), a miss
\* starts the PCH compiler
PchLookup(s, parsed) ==
    /\ pchSessions[s].pch = "lookup"
    /\ IF ~parsed
       THEN /\ pchSessions' = [pchSessions EXCEPT ![s].pch = "store",
                                                  ![s].pchErr = TRUE]
            /\ UNCHANGED <<pchFile, pchStats>>
       ELSE IF pchFile.inObjCache
       THEN /\ pchSessions' = [pchSessions EXCEPT ![s].pch = "store",
                                   ![s].pchErr = pchFile.output]
            /\ pchFile' = [pchFile EXCEPT !.output = TRUE]
            /\ UNCHANGED pchStats
       ELSE /\ pchSessions' = [pchSessions EXCEPT ![s].pch = "exec"]
            /\ pchStats' = [pchStats EXCEPT !.runs = @ + 1]
            /\ UNCHANGED pchFile
    /\ UNCHANGED pchUploads
    /\ UNCHANGED nonPchVars

\* Session.LaunchPchWhenPossible, the end of ExecCompiler: a PCH compiled
\* with exit code 0 is saved to the obj cache
PchExecCompiler(s, exitCode) ==
    /\ pchSessions[s].pch = "exec"
    /\ pchSessions' = [pchSessions EXCEPT ![s].pch = "store",
                                          ![s].pchErr = (exitCode # 0)]
    /\ pchFile' = IF exitCode = 0
                  THEN [pchFile EXCEPT !.output = TRUE, !.inObjCache = TRUE]
                  ELSE pchFile
    /\ pchStats' = IF exitCode = 0
                   THEN [pchStats EXCEPT !.compiled = @ + 1]
                   ELSE pchStats
    /\ UNCHANGED pchUploads
    /\ UNCHANGED nonPchVars

\* Session.StartCompilingPchIfPossible after LaunchPchWhenPossible:
\* state.Store(fsFileStatePchCompiled) or Store(fsFileStatePchCompileError),
\* then StartCompilingObjIfPossible of every session of
\* GetSessionsNotStartedCompilation
PchStore(s) ==
    /\ pchSessions[s].pch = "store"
    /\ LET state == IF pchSessions[s].pchErr THEN fsFileStatePchCompileError
                    ELSE fsFileStatePchCompiled
           returned == [pchSessions EXCEPT ![s].pch = "none",
                                           ![s].pchErr = FALSE]
       IN  /\ pchFile' = [pchFile EXCEPT !.state = state]
           /\ pchSessions' = PchSweep(returned, state)
    /\ UNCHANGED <<pchUploads, pchStats>>
    /\ UNCHANGED nonPchVars

\* Session.StartCompilingPchIfPossible, `else if state.Load() ==
\* fsFileStatePchCompileError`: the session is pushed with exit code -1
PchCheckError(s) ==
    /\ pchSessions[s].errors > 0
    /\ pchSessions' = [pchSessions EXCEPT ![s] =
           IF pchFile.state = fsFileStatePchCompileError
           THEN [@ EXCEPT !.errors = @ - 1, !.pushes = @ + 1]
           ELSE [@ EXCEPT !.errors = @ - 1]]
    /\ UNCHANGED <<pchFile, pchUploads, pchStats>>
    /\ UNCHANGED nonPchVars

\* NoccServer.RecvCompiledObjStream: the result of a pushed session is sent
\* and the session is closed
PchRecvCompiledObjStream(s) ==
    /\ pchSessions[s].pc = "registered"
    /\ pchSessions[s].pushes > 0
    /\ pchSessions' = [pchSessions EXCEPT ![s].pc = "closed"]
    /\ UNCHANGED <<pchFile, pchUploads, pchStats>>
    /\ UNCHANGED nonPchVars

PchNext ==
    \/ \E s \in 1..NumPchSessions, hanged \in BOOLEAN : PchStartSession(s, hanged)
    \/ \E s \in 1..NumPchSessions, ok \in BOOLEAN : PchUploadFileStream(s, ok)
    \/ \E s \in 1..NumPchSessions : PchCheckCompiled(s)
    \/ \E s \in 1..NumPchSessions : PchSwap(s)
    \/ \E s \in 1..NumPchSessions, parsed \in BOOLEAN : PchLookup(s, parsed)
    \/ \E s \in 1..NumPchSessions, exitCode \in {0, 1} :
           PchExecCompiler(s, exitCode)
    \/ \E s \in 1..NumPchSessions : PchStore(s)
    \/ \E s \in 1..NumPchSessions : PchCheckError(s)
    \/ \E s \in 1..NumPchSessions : PchRecvCompiledObjStream(s)

(***************************************************************************)
(* The daemon's unix socket: the connections of the wrappers and the loop  *)
(* that quits the daemon when no wrapper has connected for a while.  Time  *)
(* is counted in seconds; an invocation takes any time.                    *)
(***************************************************************************)
\* MakeDaemonRpcListener: no connection, lastTimeAlive is time.Now()
SockInit ==
    /\ sockClock = 0
    /\ sockListener = [activeConnections |-> 0, lastTimeAlive |-> 0,
                       closed |-> FALSE]
    /\ sockConns = [c \in 1..NumConns |-> "none"]
    /\ sockLoop = [pc |-> "select", nActive |-> 0,
                   timer |-> IdleCheckSeconds, quitDaemonChan |-> FALSE]

\* a second passes
SockTimePasses ==
    /\ sockClock < MaxClock
    /\ sockClock' = sockClock + 1
    /\ UNCHANGED <<sockListener, sockConns, sockLoop>>
    /\ UNCHANGED nonSockVars

\* StartAcceptingConnections: netListener.Accept() returns a connection of a
\* wrapper, lastTimeAlive = time.Now(), go listener.onRequest(conn, daemon)
StartAcceptingConnections(c) ==
    /\ ~sockListener.closed
    /\ sockConns[c] = "none"
    /\ \A b \in 1..(c - 1) : sockConns[b] # "none"
    /\ sockListener' = [sockListener EXCEPT !.lastTimeAlive = sockClock]
    /\ sockConns' = [sockConns EXCEPT ![c] = "accepted"]
    /\ UNCHANGED <<sockClock, sockLoop>>
    /\ UNCHANGED nonSockVars

\* onRequest up to the call of HandleInvocation: the request is read from
\* the socket; a request that cannot be read is answered by respondErr,
\* another one is counted in activeConnections
onRequestRead(c, ok) ==
    /\ sockConns[c] = "accepted"
    /\ IF ok
       THEN /\ sockConns' = [sockConns EXCEPT ![c] = "handling"]
            /\ sockListener' = [sockListener EXCEPT !.activeConnections = @ + 1]
       ELSE /\ sockConns' = [sockConns EXCEPT ![c] = "responded"]
            /\ UNCHANGED sockListener
    /\ UNCHANGED <<sockClock, sockLoop>>
    /\ UNCHANGED nonSockVars

\* onRequest: HandleInvocation returns, activeConnections.Add(-1)
onRequestHandled(c) ==
    /\ sockConns[c] = "handling"
    /\ sockConns' = [sockConns EXCEPT ![c] = "handled"]
    /\ sockListener' = [sockListener EXCEPT !.activeConnections = @ - 1]
    /\ UNCHANGED <<sockClock, sockLoop>>
    /\ UNCHANGED nonSockVars

\* onRequest: lastTimeAlive = time.Now(), respondOk
onRequestRespond(c) ==
    /\ sockConns[c] = "handled"
    /\ sockConns' = [sockConns EXCEPT ![c] = "responded"]
    /\ sockListener' = [sockListener EXCEPT !.lastTimeAlive = sockClock]
    /\ UNCHANGED <<sockClock, sockLoop>>
    /\ UNCHANGED nonSockVars

\* EnterInfiniteLoopUntilQuit, `case <-time.After(5 * time.Second)`: the
\* timer has fired, nActive := listener.activeConnections.Load()
IdleLoad ==
    /\ sockLoop.pc = "select"
    /\ ~sockLoop.quitDaemonChan
    /\ sockClock >= sockLoop.timer
    /\ sockLoop' = [sockLoop EXCEPT !.pc = "loaded",
                        !.nActive = sockListener.activeConnections]
    /\ UNCHANGED <<sockClock, sockListener, sockConns>>
    /\ UNCHANGED nonSockVars

\* EnterInfiniteLoopUntilQuit:
\* `nActive == 0 && time.Since(listener.lastTimeAlive).Seconds() > 15`
IsIdle(nActive, since) == nActive = 0 /\ since > IdleQuitSeconds

\* EnterInfiniteLoopUntilQuit: the condition is evaluated with the nActive
\* loaded before; the loop goes on to QuitDaemonGracefully or to the next
\* select with a new timer
IdleCheck ==
    /\ sockLoop.pc = "loaded"
    /\ sockLoop' = IF IsIdle(sockLoop.nActive,
                             sockClock - sockListener.lastTimeAlive)
                   THEN [sockLoop EXCEPT !.pc = "quit"]
                   ELSE [sockLoop EXCEPT !.pc = "select",
                             !.timer = sockClock + IdleCheckSeconds]
    /\ UNCHANGED <<sockClock, sockListener, sockConns>>
    /\ UNCHANGED nonSockVars

\* Daemon.QuitDaemonGracefully("no connections receiving anymore"):
\* close(daemon.quitDaemonChan); the loop returns to its select
IdleQuit ==
    /\ sockLoop.pc = "quit"
    /\ sockLoop' = [sockLoop EXCEPT !.pc = "select", !.quitDaemonChan = TRUE]
    /\ UNCHANGED <<sockClock, sockListener, sockConns>>
    /\ UNCHANGED nonSockVars

\* EnterInfiniteLoopUntilQuit, `case <-daemon.quitDaemonChan`: the listener
\* is closed and the loop returns, after which main returns
IdleReturn ==
    /\ sockLoop.pc = "select"
    /\ sockLoop.quitDaemonChan
    /\ sockLoop' = [sockLoop EXCEPT !.pc = "returned"]
    /\ sockListener' = [sockListener EXCEPT !.closed = TRUE]
    /\ UNCHANGED <<sockClock, sockConns>>
    /\ UNCHANGED nonSockVars

SockNext ==
    \/ SockTimePasses
    \/ \E c \in 1..NumConns : StartAcceptingConnections(c)
    \/ \E c \in 1..NumConns, ok \in BOOLEAN : onRequestRead(c, ok)
    \/ \E c \in 1..NumConns : onRequestHandled(c)
    \/ \E c \in 1..NumConns : onRequestRespond(c)
    \/ IdleLoad
    \/ IdleCheck
    \/ IdleQuit
    \/ IdleReturn

(***************************************************************************)
(* The local compiler: Daemon.InvokeLocalCompilation of several requests   *)
(* at once, behind the daemon's localCompilerThrottle.                     *)
(***************************************************************************)
FallbackDisabledStderr == "fallback to local compiler disabled"

NoLocalReply == [ExitCode |-> -1, Stderr |-> ""]

\* MakeDaemon: localCompilerThrottle is make(chan struct{}, CompilerQueueSize)
\* and disableLocalCompiler is CompilerQueueSize == 0
MakeDaemon(CompilerQueueSize) ==
    [CompilerQueueSize |-> CompilerQueueSize,
     disableLocalCompiler |-> (CompilerQueueSize = 0),
     localCompilerThrottle |-> 0]

\* a daemon that no request asks for a local compilation
LocalIdle ==
    /\ localDaemon = MakeDaemon(1)
    /\ localInvocations = [i \in 1..NumLocal |-> [pc |-> "none", reply |-> NoLocalReply]]

\* the daemon with its configuration read, before the first request
LocalInit ==
    /\ \E CompilerQueueSize \in 0..MaxQueueSize :
           localDaemon = MakeDaemon(CompilerQueueSize)
    /\ localInvocations = [i \in 1..NumLocal |-> [pc |-> "none", reply |-> NoLocalReply]]

\* HandleInvocation reaches InvokeLocalCompilation: an invocation found
\* invokedForLocalCompiling, invokedUnsupported, invokedForLinking or
\* invokedForCompilingPch, or a remote compilation that failed
LocalInvoke(i) ==
    /\ localInvocations[i].pc = "none"
    /\ localInvocations' = [localInvocations EXCEPT ![i].pc = "invoked"]
    /\ UNCHANGED localDaemon
    /\ UNCHANGED nonLocalVars

\* InvokeLocalCompilation, `if daemon.disableLocalCompiler`: the reply is
\* exit code 1 with the message, without any compiler
LocalCheckDisabled(i) ==
    /\ localInvocations[i].pc = "invoked"
    /\ localInvocations' = [localInvocations EXCEPT ![i] =
           IF localDaemon.disableLocalCompiler
           THEN [pc |-> "done",
                 reply |-> [ExitCode |-> 1, Stderr |-> FallbackDisabledStderr]]
           ELSE [@ EXCEPT !.pc = "throttle"]]
    /\ UNCHANGED localDaemon
    /\ UNCHANGED nonLocalVars

ThrottleAlwaysAccepts(throttle, size) == TRUE

\* a send to a channel of capacity size that holds throttle values goes
\* through when the channel is not full
ThrottleAccepts(throttle, size) == throttle < size

\* InvokeLocalCompilation, `daemon.localCompilerThrottle <- struct{}{}` and
\* the start of the compiler process in RunCompilerLocally
LocalAcquire(i) ==
    /\ localInvocations[i].pc = "throttle"
    /\ ThrottleAccepts(localDaemon.localCompilerThrottle,
                       localDaemon.CompilerQueueSize)
    /\ localDaemon' = [localDaemon EXCEPT !.localCompilerThrottle = @ + 1]
    /\ localInvocations' = [localInvocations EXCEPT ![i].pc = "running"]
    /\ UNCHANGED nonLocalVars

\* RunCompilerLocally: the compiler process ends, its exit code and output
\* are the reply
LocalCompilerExits(i, exitCode) ==
    /\ localInvocations[i].pc = "running"
    /\ localInvocations' = [localInvocations EXCEPT ![i] =
           [pc |-> "exited",
            reply |-> [ExitCode |-> exitCode, Stderr |-> "compiler"]]]
    /\ UNCHANGED localDaemon
    /\ UNCHANGED nonLocalVars

\* InvokeLocalCompilation, `<-daemon.localCompilerThrottle` and the return
LocalRelease(i) ==
    /\ localInvocations[i].pc = "exited"
    /\ localDaemon' = [localDaemon EXCEPT !.localCompilerThrottle = @ - 1]
    /\ localInvocations' = [localInvocations EXCEPT ![i].pc = "done"]
    /\ UNCHANGED nonLocalVars

LocalNext ==
    \/ \E i \in 1..NumLocal : LocalInvoke(i)
    \/ \E i \in 1..NumLocal : LocalCheckDisabled(i)
    \/ \E i \in 1..NumLocal : LocalAcquire(i)
    \/ \E i \in 1..NumLocal, exitCode \in {0, 1} : LocalCompilerExits(i, exitCode)
    \/ \E i \in 1..NumLocal : LocalRelease(i)

(***************************************************************************)
(* The stream of compiled objects: RecvCompiledObjStream and               *)
(* sendObjFileByChunks on the worker, monitorRemoteStreamForObjReceiving   *)
(* and receiveObjFileByChunks on the client.  A byte of the object file of *)
(* session s is the number s; the object a previous build left at          *)
(* objOutFile is made of the byte 0.                                       *)
(***************************************************************************)
ObjectOf(size, s) == [i \in 1..size |-> s]

OldObject == <<0>>

NoTempFile == <<-1>>

HeaderChunk(s, exitCode, fileSize) ==
    [kind |-> "header", SessionID |-> s, CompilerExitCode |-> exitCode,
     FileSize |-> fileSize, ChunkBody |-> <<>>]

BodyChunk(s, body) ==
    [kind |-> "body", SessionID |-> s, CompilerExitCode |-> 0,
     FileSize |-> 0, ChunkBody |-> body]

ObjServerStart ==
    [pc |-> "wait", chanReadySessions |-> <<>>,
     pushed |-> [s \in 1..NumObjSessions |-> 0], session |-> 0, offset |-> 0,
     closed |-> {}]

ObjClientStart ==
    [pc |-> "monitor", session |-> 0, fileSize |-> 0, receivedBytes |-> 0,
     fileTmp |-> NoTempFile, errWrite |-> FALSE, errRecv |-> FALSE,
     objOutFile |-> [s \in 1..NumObjSessions |-> OldObject],
     done |-> [s \in 1..NumObjSessions |-> "none"]]

ObjStreamStart == [sent |-> <<>>, inFlight |-> <<>>, broken |-> FALSE]

\* no object is sent or received
ObjIdle ==
    /\ objSessions = [s \in 1..NumObjSessions |-> [compilerExitCode |-> 0, size |-> 0]]
    /\ objServer = ObjServerStart
    /\ objStream = ObjStreamStart
    /\ objClient = ObjClientStart

\* the sessions of one client, each with the exit code of its compiler and
\* the object file the compiler wrote, and the stream just opened
ObjInit ==
    /\ objSessions \in [1..NumObjSessions ->
                            [compilerExitCode : {0, 1}, size : 0..MaxObjSize]]
    /\ objServer = ObjServerStart
    /\ objStream = ObjStreamStart
    /\ objClient = ObjClientStart

\* Session.PushToClientReadyChannel: a session whose compiler ended goes to
\* client.chanReadySessions.  LaunchCompilerWhenPossible pushes a session
\* once; every StartCompilingPchIfPossible that finds the PCH in
\* fsFileStatePchCompileError pushes the failed session again.
PushToClientReadyChannel(s) ==
    /\ \/ objServer.pushed[s] = 0
       \/ /\ objSessions[s].compilerExitCode # 0
          /\ objServer.pushed[s] < MaxObjPushes
    /\ objServer' = [objServer EXCEPT !.chanReadySessions = Append(@, s),
                                      !.pushed[s] = @ + 1]
    /\ UNCHANGED <<objSessions, objStream, objClient>>
    /\ UNCHANGED nonObjVars

\* stream.Send: the chunk is on the stream unless the stream is broken
StreamSend(stream, chunk) ==
    IF stream.broken THEN stream
    ELSE [stream EXCEPT !.sent = Append(@, chunk), !.inFlight = Append(@, chunk)]

\* the connection breaks: what was not received is lost
ObjStreamBreaks ==
    /\ ~objStream.broken
    /\ objStream' = [objStream EXCEPT !.broken = TRUE, !.inFlight = <<>>]
    /\ UNCHANGED <<objSessions, objServer, objClient>>
    /\ UNCHANGED nonObjVars

\* RecvCompiledObjStream, `case session := <-client.chanReadySessions`: a
\* failed compilation is one Send of the header and CloseSession; otherwise
\* sendObjFileByChunks opens the file (opened says whether it could) and
\* sends the header with FileSize of Stat.  An error ends the stream.
ObjSendHeader(opened) ==
    /\ objServer.pc = "wait"
    /\ objServer.chanReadySessions # <<>>
    /\ LET s == Head(objServer.chanReadySessions)
           session == objSessions[s]
           rest == Tail(objServer.chanReadySessions)
       IN  IF session.compilerExitCode # 0
           THEN /\ objStream' = StreamSend(objStream,
                        HeaderChunk(s, session.compilerExitCode, 0))
                /\ objServer' = [objServer EXCEPT
                        !.chanReadySessions = rest,
                        !.pc = IF objStream.broken THEN "closed" ELSE "wait",
                        !.closed = IF objStream.broken THEN @ ELSE @ \union {s}]
           ELSE IF ~opened
           THEN /\ objServer' = [objServer EXCEPT !.chanReadySessions = rest,
                                                  !.pc = "closed"]
                /\ UNCHANGED objStream
           ELSE /\ objStream' = StreamSend(objStream,
                        HeaderChunk(s, session.compilerExitCode, session.size))
                /\ objServer' = [objServer EXCEPT
                        !.chanReadySessions = rest,
                        !.session = s,
                        !.offset = 0,
                        !.pc = IF objStream.broken THEN "closed" ELSE "body"]
    /\ UNCHANGED <<objSessions, objClient>>
    /\ UNCHANGED nonObjVars

WholeChunkBuf(file, offset, n) ==
    [i \in 1..ObjChunkBufSize |->
        IF offset + i <= Len(file) THEN file[offset + i] ELSE 0]

\* chunkBuf[:n] after fd.Read(chunkBuf) at the offset
ChunkRead(file, offset, n) == SubSeq(file, offset + 1, offset + n)

\* sendObjFileByChunks, one turn of the loop: fd.Read gives 1..len(chunkBuf)
\* bytes, which are sent, or io.EOF, which ends the file: CloseSession
ObjSendBody(n) ==
    /\ objServer.pc = "body"
    /\ LET s == objServer.session
           file == ObjectOf(objSessions[s].size, s)
           left == Len(file) - objServer.offset
       IN  IF left = 0
           THEN /\ n = 0
                /\ objServer' = [objServer EXCEPT !.pc = "wait", !.session = 0,
                                                  !.offset = 0,
                                                  !.closed = @ \union {s}]
                /\ UNCHANGED objStream
           ELSE /\ n >= 1
                /\ n <= left
                /\ objStream' = StreamSend(objStream,
                        BodyChunk(s, ChunkRead(file, objServer.offset, n)))
                /\ objServer' = [objServer EXCEPT
                        !.offset = @ + n,
                        !.pc = IF objStream.broken THEN "closed" ELSE "body"]
    /\ UNCHANGED <<objSessions, objClient>>
    /\ UNCHANGED nonObjVars

\* Invocation.DoneRecvObj: the first call for an invocation counts
DoneRecvObjOf(client, s, err) ==
    IF client.done[s] # "none" THEN client
    ELSE [client EXCEPT !.done[s] = IF err THEN "err" ELSE "ok"]

\* monitorRemoteStreamForObjReceiving, one turn of the loop: the first chunk
\* of a session; a failed compilation is done at once, otherwise
\* receiveObjFileByChunks opens the temp file (opened says whether it could).
\* An error of Recv ends the goroutine.
ObjRecvFirst(opened) ==
    /\ objClient.pc = "monitor"
    /\ \/ /\ objStream.broken
          /\ objClient' = [objClient EXCEPT !.pc = "stopped"]
          /\ UNCHANGED objStream
       \/ /\ ~objStream.broken
          /\ objStream.inFlight # <<>>
          /\ LET firstChunk == Head(objStream.inFlight)
                 s == firstChunk.SessionID
             IN  /\ objStream' = [objStream EXCEPT !.inFlight = Tail(@)]
                 /\ objClient' =
                        IF firstChunk.CompilerExitCode # 0
                        THEN DoneRecvObjOf(objClient, s, FALSE)
                        ELSE [objClient EXCEPT
                                 !.pc = "receive",
                                 !.session = s,
                                 !.fileSize = firstChunk.FileSize,
                                 !.receivedBytes = 0,
                                 !.fileTmp = IF opened THEN <<>> ELSE NoTempFile,
                                 !.errWrite = ~opened,
                                 !.errRecv = FALSE]
    /\ UNCHANGED <<objSessions, objServer>>
    /\ UNCHANGED nonObjVars

\* receiveObjFileByChunks, one turn of `for receivedBytes < fileSize`: Recv,
\* the write of the chunk to the temp file (written says whether it could),
\* then the look at the chunk's SessionID
ObjRecvChunk(written) ==
    /\ objClient.pc = "receive"
    /\ ~objClient.errRecv
    /\ objClient.receivedBytes < objClient.fileSize
    /\ \/ /\ objStream.broken
          /\ objClient' = [objClient EXCEPT !.errRecv = TRUE]
          /\ UNCHANGED objStream
       \/ /\ ~objStream.broken
          /\ objStream.inFlight # <<>>
          /\ LET nextChunk == Head(objStream.inFlight)
                 writes == ~objClient.errWrite
                 mismatch == nextChunk.SessionID # objClient.session
             IN  /\ objStream' = [objStream EXCEPT !.inFlight = Tail(@)]
                 /\ objClient' = [objClient EXCEPT
                        !.fileTmp = IF writes /\ written
                                    THEN @ \o nextChunk.ChunkBody ELSE @,
                        !.errWrite = @ \/ (writes /\ ~written),
                        !.errRecv = mismatch,
                        !.receivedBytes = IF mismatch THEN @
                                          ELSE @ + Len(nextChunk.ChunkBody)]
    /\ UNCHANGED <<objSessions, objServer>>
    /\ UNCHANGED nonObjVars

\* receiveObjFileByChunks after the loop: `if errWrite == nil` the temp file
\* is renamed to objOutFile
RenameTempFile(errWrite, errRecv) == ~errWrite

\* receiveObjFileByChunks after the loop: Close, Rename, Remove of the temp
\* file, then DoneRecvObj(err) in the monitor, which goes on with the next
\* session unless Recv failed
ObjRecvClose ==
    /\ objClient.pc = "receive"
    /\ objClient.errRecv \/ objClient.receivedBytes >= objClient.fileSize
    /\ LET s == objClient.session
           renamed == /\ objClient.fileTmp # NoTempFile
                      /\ RenameTempFile(objClient.errWrite, objClient.errRecv)
           after == [objClient EXCEPT
                        !.objOutFile[s] = IF renamed THEN objClient.fileTmp ELSE @,
                        !.fileTmp = NoTempFile,
                        !.pc = IF objClient.errRecv THEN "stopped" ELSE "monitor"]
       IN  objClient' = DoneRecvObjOf(after, s,
                                      objClient.errRecv \/ objClient.errWrite)
    /\ UNCHANGED <<objSessions, objServer, objStream>>
    /\ UNCHANGED nonObjVars

ObjNext ==
    \/ \E s \in 1..NumObjSessions : PushToClientReadyChannel(s)
    \/ ObjStreamBreaks
    \/ \E opened \in BOOLEAN : ObjSendHeader(opened)
    \/ \E n \in 0..ObjChunkBufSize : ObjSendBody(n)
    \/ \E opened \in BOOLEAN : ObjRecvFirst(opened)
    \/ \E written \in BOOLEAN : ObjRecvChunk(written)
    \/ ObjRecvClose

(***************************************************************************)
(* The upload stream: runUploadStream, monitorClientChanForFileUploading   *)
(* and uploadFileByChunks on the client, UploadFileStream and              *)
(* receiveUploadedFileByChunks on the worker.  Byte k of the file of       *)
(* request r is the number 10 * r + k.                                     *)
(***************************************************************************)
UpClientID == "c1"

\* the fileUploadReq values: a file of each of two invocations
UpRequests ==
    <<[invocation |-> 1, clientID |-> UpClientID, sessionID |-> 11, fileIndex |-> 0],
      [invocation |-> 2, clientID |-> UpClientID, sessionID |-> 12, fileIndex |-> 1]>>

UpInvocationIDs == {UpRequests[r].invocation : r \in 1..Len(UpRequests)}

UpFileOf(r, size) == [k \in 1..size |-> 10 * r + k]

UpStreamOpened == [sent |-> <<>>, toServer |-> <<>>, toClient |-> <<>>, status |-> "open"]

UpServerStart == [pc |-> "first", req |-> 0, receivedBytes |-> 0, fileTmp |-> <<>>]

UpClientStart ==
    [pc |-> "monitor", cur |-> 0, offset |-> 0, sentChunks |-> 0, err |-> "",
     acks |-> <<>>]

UpStart ==
    /\ upInvocations = [i \in UpInvocationIDs |->
           [err |-> FALSE,
            wgUpload |-> Cardinality({r \in 1..Len(UpRequests) :
                                         UpRequests[r].invocation = i})]]
    /\ upRemote = [chanToUpload |-> <<>>, queued |-> {}, isUnavailable |-> FALSE,
                   reconnectClosed |-> FALSE, streams |-> 1]
    /\ upClient = UpClientStart
    /\ upStream = UpStreamOpened
    /\ upServer = UpServerStart

\* nothing is uploaded
UpIdle ==
    /\ upFiles = [r \in 1..Len(UpRequests) |-> 0]
    /\ UpStart

\* UploadFilesToRemote has added the files of each invocation to its
\* wgUpload; the upload stream is open
UpInit ==
    /\ upFiles \in [1..Len(UpRequests) -> 0..MaxUpSize]
    /\ UpStart

\* StartUploadingFileToRemote: `remote.chanToUpload <- fileUploadReq{...}`
StartUploadingFileToRemote(r) ==
    /\ r \notin upRemote.queued
    /\ upRemote' = [upRemote EXCEPT !.chanToUpload = Append(@, r),
                                    !.queued = @ \union {r}]
    /\ UNCHANGED <<upFiles, upInvocations, upClient, upStream, upServer>>
    /\ UNCHANGED nonUpVars

\* Invocation.DoneUploadFile
UpDoneUploadFile(invocation, err) ==
    [invocation EXCEPT !.err = @ \/ err, !.wgUpload = @ - 1]

\* RemoteConnection.OnRemoteBecameUnavailable: the first call closes
\* reconnectChan and starts tryReconnectRemote
UpOnRemoteBecameUnavailable(remote) ==
    [remote EXCEPT !.isUnavailable = TRUE, !.reconnectClosed = TRUE]

\* monitorClientChanForFileUploading, `case <-rc.reconnectChan`: the goroutine
\* returns without an error
UpMonitorStops ==
    /\ upClient.pc = "monitor"
    /\ upRemote.reconnectClosed
    /\ upClient' = [upClient EXCEPT !.pc = "stopped"]
    /\ UNCHANGED <<upFiles, upInvocations, upRemote, upStream, upServer>>
    /\ UNCHANGED nonUpVars

\* monitorClientChanForFileUploading, `case req := <-rc.chanToUpload` and
\* os.Open of uploadFileByChunks (opened says whether it could)
UpTakeRequest(opened) ==
    /\ upClient.pc = "monitor"
    /\ upRemote.chanToUpload # <<>>
    /\ upRemote' = [upRemote EXCEPT !.chanToUpload = Tail(@)]
    /\ upClient' = [upClient EXCEPT
           !.cur = Head(upRemote.chanToUpload),
           !.offset = 0,
           !.sentChunks = 0,
           !.err = IF opened THEN "" ELSE "err",
           !.pc = IF opened THEN "sending" ELSE "failed"]
    /\ UNCHANGED <<upFiles, upInvocations, upStream, upServer>>
    /\ UNCHANGED nonUpVars

BreaksAtEveryEOF(left, sentChunks) == left = 0

\* uploadFileByChunks, `if err == io.EOF && sentChunks != 0 { break }` with
\* left bytes of the file not yet read
BreaksAtEOF(left, sentChunks) == left = 0 /\ sentChunks # 0

\* the UploadFileChunkRequest of uploadFileByChunks
UploadFileChunkRequest(req, body) ==
    [ClientID |-> req.clientID, SessionID |-> req.sessionID,
     FileIndex |-> req.fileIndex, ChunkBody |-> body]

\* uploadFileByChunks, one turn of the loop: fd.Read gives 1..len(chunkBuf)
\* bytes or io.EOF with none; at the end of the file the loop is left,
\* otherwise the chunk is sent, and a Send that fails returns the error
UpSendChunk(n) ==
    /\ upClient.pc = "sending"
    /\ LET r == upClient.cur
           file == UpFileOf(r, upFiles[r])
           left == Len(file) - upClient.offset
       IN  /\ n <= left
           /\ left > 0 => n >= 1
           /\ IF BreaksAtEOF(left, upClient.sentChunks)
              THEN /\ upClient' = [upClient EXCEPT !.pc = "confirm"]
                   /\ UNCHANGED upStream
              ELSE LET chunk == UploadFileChunkRequest(UpRequests[r],
                                    SubSeq(file, upClient.offset + 1,
                                           upClient.offset + n))
                       sentAs == [chunk |-> chunk, req |-> r,
                                  stream |-> upRemote.streams,
                                  confirmed |-> Len(upClient.acks)]
                   IN  IF upStream.status = "open"
                       THEN /\ upStream' = [upStream EXCEPT
                                   !.sent = Append(@, sentAs),
                                   !.toServer = Append(@, chunk)]
                            /\ upClient' = [upClient EXCEPT
                                   !.sentChunks = @ + 1, !.offset = @ + n]
                       ELSE /\ upClient' = [upClient EXCEPT
                                   !.sentChunks = @ + 1, !.err = "err",
                                   !.pc = "failed"]
                            /\ UNCHANGED upStream
    /\ UNCHANGED <<upFiles, upInvocations, upRemote, upServer>>
    /\ UNCHANGED nonUpVars

\* uploadFileByChunks, `_, err = stream.Recv()`, and, without an error, the
\* DoneUploadFile(nil) of monitorClientChanForFileUploading; a stream that
\* has ended gives its status as the error
UpRecvConfirmation ==
    /\ upClient.pc = "confirm"
    /\ LET r == upClient.cur
           i == UpRequests[r].invocation
       IN  IF upStream.toClient # <<>>
           THEN /\ upStream' = [upStream EXCEPT !.toClient = Tail(@)]
                /\ upClient' = [upClient EXCEPT
                       !.pc = "monitor",
                       !.acks = Append(@, <<r, Head(upStream.toClient)>>)]
                /\ upInvocations' = [upInvocations EXCEPT
                       ![i] = UpDoneUploadFile(@, FALSE)]
           ELSE /\ upStream.status # "open"
                /\ upClient' = [upClient EXCEPT !.pc = "failed",
                                                !.err = upStream.status]
                /\ UNCHANGED <<upStream, upInvocations>>
    /\ UNCHANGED <<upFiles, upRemote, upServer>>
    /\ UNCHANGED nonUpVars

\* runUploadStream, `if err != nil`: a silent return when reconnectChan is
\* closed; OnRemoteBecameUnavailable and a return on codes.Unauthenticated;
\* otherwise the sleep, `go rc.CreateUploadStream()` and DoneUploadFile(err)
UpStreamFailed ==
    /\ upClient.pc = "failed"
    /\ LET i == UpRequests[upClient.cur].invocation
       IN  IF upRemote.reconnectClosed
           THEN /\ upClient' = [upClient EXCEPT !.pc = "stopped"]
                /\ UNCHANGED <<upRemote, upInvocations>>
           ELSE IF upClient.err = "unauth"
           THEN /\ upClient' = [upClient EXCEPT !.pc = "stopped"]
                /\ upRemote' = UpOnRemoteBecameUnavailable(upRemote)
                /\ UNCHANGED upInvocations
           ELSE /\ upClient' = [upClient EXCEPT !.pc = "create"]
                /\ upInvocations' = [upInvocations EXCEPT
                       ![i] = UpDoneUploadFile(@, TRUE)]
                /\ UNCHANGED upRemote
    /\ UNCHANGED <<upFiles, upStream, upServer>>
    /\ UNCHANGED nonUpVars

\* runUploadStream of the new goroutine: UploadFileStream(ctx) opens a
\* stream (created says whether it could), on an error
\* OnRemoteBecameUnavailable
CreateUploadStream(created) ==
    /\ upClient.pc = "create"
    /\ upRemote.streams < MaxUpStreams
    /\ IF created
       THEN /\ upClient' = [UpClientStart EXCEPT !.acks = <<>>]
            /\ upStream' = [UpStreamOpened EXCEPT !.sent = upStream.sent]
            /\ upServer' = UpServerStart
            /\ upRemote' = [upRemote EXCEPT !.streams = @ + 1]
       ELSE /\ upClient' = [upClient EXCEPT !.pc = "stopped"]
            /\ upRemote' = UpOnRemoteBecameUnavailable(upRemote)
            /\ UNCHANGED <<upStream, upServer>>
    /\ UNCHANGED <<upFiles, upInvocations>>
    /\ UNCHANGED nonUpVars

\* the request whose tags a chunk carries
UpRequestOf(chunk) ==
    {r \in 1..Len(UpRequests) :
        /\ UpRequests[r].sessionID = chunk.SessionID
        /\ UpRequests[r].fileIndex = chunk.FileIndex}

\* UploadFileStream and receiveUploadedFileByChunks, one Recv: the first
\* chunk of a file names the client (known says whether ActiveClients has
\* it), the session and the file; chunks are written to the temp file
\* (written says whether they could) until file.fileSize bytes have come,
\* then the file is renamed and the empty confirmation is sent.  An error
\* ends the stream with its status.
UpServerRecv(known, written) ==
    /\ upStream.status = "open"
    /\ upServer.pc \in {"first", "more"}
    /\ upStream.toServer # <<>>
    /\ LET chunk == Head(upStream.toServer)
           first == upServer.pc = "first"
           found == UpRequestOf(chunk)
           r == IF first
                THEN (IF found = {} THEN 0 ELSE CHOOSE q \in found : TRUE)
                ELSE upServer.req
           mismatch == ~first /\ r \notin found
           receivedBytes == (IF first THEN 0 ELSE upServer.receivedBytes)
                                + Len(chunk.ChunkBody)
           fileTmp == (IF first THEN <<>> ELSE upServer.fileTmp) \o chunk.ChunkBody
           rest == [upStream EXCEPT !.toServer = Tail(@)]
       IN  IF first /\ ~known
           THEN /\ upStream' = [rest EXCEPT !.status = "unauth"]
                /\ upServer' = [upServer EXCEPT !.pc = "returned"]
           ELSE IF r = 0 \/ ~written \/ mismatch
           THEN /\ upStream' = [rest EXCEPT !.status = "err"]
                /\ upServer' = [upServer EXCEPT !.pc = "returned"]
           ELSE IF receivedBytes < upFiles[r]
           THEN /\ upStream' = rest
                /\ upServer' = [pc |-> "more", req |-> r,
                                receivedBytes |-> receivedBytes,
                                fileTmp |-> fileTmp]
           ELSE /\ upStream' = [rest EXCEPT !.toClient = Append(@, fileTmp)]
                /\ upServer' = UpServerStart
    /\ UNCHANGED <<upFiles, upInvocations, upRemote, upClient>>
    /\ UNCHANGED nonUpVars

\* the connection breaks: what was not received is lost
UpStreamBreaks ==
    /\ upStream.status = "open"
    /\ upStream' = [upStream EXCEPT !.status = "err", !.toServer = <<>>,
                                    !.toClient = <<>>]
    /\ UNCHANGED <<upFiles, upInvocations, upRemote, upClient, upServer>>
    /\ UNCHANGED nonUpVars

\* the receive stream of the same worker calls OnRemoteBecameUnavailable;
\* tryReconnectRemote cancels the context of the upload stream
UpRemoteBecameUnavailable ==
    /\ ~upRemote.isUnavailable
    /\ upRemote' = UpOnRemoteBecameUnavailable(upRemote)
    /\ upStream' = [upStream EXCEPT
           !.status = IF @ = "open" THEN "err" ELSE @,
           !.toServer = <<>>, !.toClient = <<>>]
    /\ UNCHANGED <<upFiles, upInvocations, upClient, upServer>>
    /\ UNCHANGED nonUpVars

\* tryReconnectRemote, reconnectRemote: SetupConnection makes a new
\* reconnectChan and, when the worker answers (connected), starts the file
\* monitoring again and the worker is available
UpReconnectRemote(connected) ==
    /\ upRemote.isUnavailable
    /\ upClient.pc = "stopped"
    /\ IF connected
       THEN /\ upRemote' = [upRemote EXCEPT !.isUnavailable = FALSE,
                                            !.reconnectClosed = FALSE]
            /\ upClient' = [upClient EXCEPT !.pc = "create"]
       ELSE /\ upRemote' = [upRemote EXCEPT !.reconnectClosed = FALSE]
            /\ UNCHANGED upClient
    /\ UNCHANGED <<upFiles, upInvocations, upStream, upServer>>
    /\ UNCHANGED nonUpVars

UpNext ==
    \/ \E r \in 1..Len(UpRequests) : StartUploadingFileToRemote(r)
    \/ UpMonitorStops
    \/ \E opened \in BOOLEAN : UpTakeRequest(opened)
    \/ \E n \in 0..UpChunkBufSize : UpSendChunk(n)
    \/ UpRecvConfirmation
    \/ UpStreamFailed
    \/ \E created \in BOOLEAN : CreateUploadStream(created)
    \/ \E known \in BOOLEAN, written \in BOOLEAN : UpServerRecv(known, written)
    \/ UpStreamBreaks
    \/ UpRemoteBecameUnavailable
    \/ \E connected \in BOOLEAN : UpReconnectRemote(connected)

(***************************************************************************)
(* The reconnection of a worker: OnRemoteBecameUnavailable,                *)
(* tryReconnectRemote and reconnectRemote, with the time of their timers.  *)
(***************************************************************************)
\* time.After(d) at the time now: a channel that gets one value at now + d
TimeAfter(now, d) == [due |-> now + d, received |-> FALSE]

\* a receive from the channel is possible: its value is there and not taken
ChanReady(chan, now) == ~chan.received /\ now >= chan.due

ChanStaysReady(chan) == chan

\* the channel after a receive: the one value of time.After is taken
ChanReceived(chan) == [chan EXCEPT !.received = TRUE]

NoTimer == [due |-> 0, received |-> TRUE]

\* a worker that is available, no goroutine of tryReconnectRemote
ReconInit ==
    /\ reconClock = 0
    /\ reconRemote = [isUnavailable |-> FALSE, quitDaemonChan |-> FALSE,
                      pc |-> "none", timeout |-> NoTimer,
                      restarttimeout |-> NoTimer, since |-> 0,
                      began |-> <<>>, ended |-> <<>>]

\* RemoteConnection.OnRemoteBecameUnavailable, `if
\* !remote.isUnavailable.Swap(true)`: tryReconnectRemote starts and makes its
\* two timers
ReconBecameUnavailable ==
    /\ ~reconRemote.isUnavailable
    /\ ~reconRemote.quitDaemonChan
    /\ reconRemote' = [reconRemote EXCEPT
           !.isUnavailable = TRUE,
           !.pc = "reconnect",
           !.timeout = TimeAfter(reconClock, FirstReconnectDelay),
           !.restarttimeout = TimeAfter(reconClock, RestartDelay),
           !.since = reconClock,
           !.began = <<>>,
           !.ended = <<>>]
    /\ UNCHANGED reconClock
    /\ UNCHANGED nonReconVars

\* a select of tryReconnectRemote has a channel to receive from
ReconSelectReady ==
    \/ /\ reconRemote.pc = "reconnect"
       /\ \/ ChanReady(reconRemote.timeout, reconClock)
          \/ ChanReady(reconRemote.restarttimeout, reconClock)
    \/ /\ reconRemote.pc = "restart"
       /\ ChanReady(reconRemote.restarttimeout, reconClock)
    \/ /\ reconRemote.pc \in {"reconnect", "restart"}
       /\ reconRemote.quitDaemonChan

\* time passes while the goroutine waits in a select or in SetupConnection,
\* whose requests have timeouts
ReconTimePasses ==
    /\ reconClock < MaxReconClock
    /\ ~ReconSelectReady
    /\ reconRemote.pc \in {"reconnecting", "restarting"} =>
           reconClock < reconRemote.began[Len(reconRemote.began)] + MaxAttemptTime
    /\ reconClock' = reconClock + 1
    /\ UNCHANGED reconRemote
    /\ UNCHANGED nonReconVars

\* tryReconnectRemote, the first loop, `case <-restarttimeout: break
\* reconnect`
ReconBreak ==
    /\ reconRemote.pc = "reconnect"
    /\ ChanReady(reconRemote.restarttimeout, reconClock)
    /\ reconRemote' = [reconRemote EXCEPT
           !.pc = "restart",
           !.restarttimeout = ChanReceived(@)]
    /\ UNCHANGED reconClock
    /\ UNCHANGED nonReconVars

\* tryReconnectRemote, `case <-timeout:` of the first loop and `case
\* <-restarttimeout:` of the second: reconnectRemote is called
ReconnectRemoteCalled ==
    /\ \/ /\ reconRemote.pc = "reconnect"
          /\ ChanReady(reconRemote.timeout, reconClock)
          /\ reconRemote' = [reconRemote EXCEPT
                 !.pc = "reconnecting",
                 !.timeout = ChanReceived(@),
                 !.began = Append(@, reconClock)]
       \/ /\ reconRemote.pc = "restart"
          /\ ChanReady(reconRemote.restarttimeout, reconClock)
          /\ reconRemote' = [reconRemote EXCEPT
                 !.pc = "restarting",
                 !.restarttimeout = ChanReceived(@),
                 !.began = Append(@, reconClock)]
    /\ UNCHANGED reconClock
    /\ UNCHANGED nonReconVars

\* reconnectRemote returns: SetupConnection succeeded (connected), the worker
\* is available and the goroutine returns; or the next timer is
\* time.After(5 * time.Second)
ReconnectRemoteReturns(connected) ==
    /\ reconRemote.pc \in {"reconnecting", "restarting"}
    /\ LET ended == [reconRemote EXCEPT !.ended = Append(@, reconClock)]
       IN  reconRemote' =
               IF connected
               THEN [ended EXCEPT !.isUnavailable = FALSE, !.pc = "returned"]
               ELSE IF reconRemote.pc = "reconnecting"
               THEN [ended EXCEPT !.pc = "reconnect",
                                  !.timeout = TimeAfter(reconClock, ReconnectDelay)]
               ELSE [ended EXCEPT !.pc = "restart",
                                  !.restarttimeout = TimeAfter(reconClock, ReconnectDelay)]
    /\ UNCHANGED reconClock
    /\ UNCHANGED nonReconVars

\* QuitDaemonGracefully: close(quitDaemonChan)
ReconQuit ==
    /\ ~reconRemote.quitDaemonChan
    /\ reconRemote' = [reconRemote EXCEPT !.quitDaemonChan = TRUE]
    /\ UNCHANGED reconClock
    /\ UNCHANGED nonReconVars

\* tryReconnectRemote, `case <-remote.quitDaemonChan: return` of both loops
ReconReturnOnQuit ==
    /\ reconRemote.pc \in {"reconnect", "restart"}
    /\ reconRemote.quitDaemonChan
    /\ reconRemote' = [reconRemote EXCEPT !.pc = "returned"]
    /\ UNCHANGED reconClock
    /\ UNCHANGED nonReconVars

ReconNext ==
    \/ ReconBecameUnavailable
    \/ ReconTimePasses
    \/ ReconBreak
    \/ ReconnectRemoteCalled
    \/ \E connected \in BOOLEAN : ReconnectRemoteReturns(connected)
    \/ ReconQuit
    \/ ReconReturnOnQuit

(***************************************************************************)
(* The stream goroutines of a worker: startFileMonitoring,                 *)
(* runUploadStream and runReceiveStream with their re-creation on errors,  *)
(* and the reconnection that starts them again.                            *)
(***************************************************************************)
StreamKinds == {"upload", "receive"}

\* the positions of a stream goroutine: before the stream is created; at
\* the top of its monitor loop, about to read rc.reconnectChan; blocked in
\* the loop (the upload goroutine in its select on the channels it read,
\* the receive goroutine in stream.Recv); woken by the close of the channel
\* its select holds; and after the monitor returned an error (with the
\* code Unauthenticated or another, for the receive stream with
\* needRecreateStream or without it)
TaskPositions ==
    {"create", "monitor", "blocked", "woken", "failed", "failedUnauth",
     "failedRecreate"}

NoTasks == [pc \in TaskPositions |-> 0]

TaskCount(tasks) ==
    tasks["create"] + tasks["monitor"] + tasks["blocked"] + tasks["woken"]
        + tasks["failed"] + tasks["failedUnauth"] + tasks["failedRecreate"]

\* the goroutines inside the monitor loop of their stream
RunningTasks(tasks) == tasks["monitor"] + tasks["blocked"]

\* a goroutine goes from one position to another
TaskMoves(tasks, from, to) ==
    [[tasks EXCEPT ![from] = @ - 1] EXCEPT ![to] = @ + 1]

\* a goroutine returns
TaskReturns(tasks, from) == [tasks EXCEPT ![from] = @ - 1]

\* MakeRemoteConnection: SetupConnection has called startFileMonitoring
TaskInit ==
    /\ taskRemote = [isUnavailable |-> FALSE, reconnectClosed |-> FALSE,
                     reconnect |-> "none"]
    /\ taskStreams = [kind \in StreamKinds |-> [NoTasks EXCEPT !["create"] = 1]]

\* RemoteConnection.OnRemoteBecameUnavailable: the first call closes
\* reconnectChan and starts tryReconnectRemote
TaskOnRemoteBecameUnavailable(remote) ==
    IF remote.isUnavailable THEN remote
    ELSE [isUnavailable |-> TRUE, reconnectClosed |-> TRUE,
          reconnect |-> "waiting"]

\* close(remote.reconnectChan) wakes the upload goroutines whose select
\* holds this channel; a receive goroutine is in stream.Recv, which
\* reconnectChan does not interrupt
TaskCloseWakes(remote, streams) ==
    IF remote.isUnavailable \/ remote.reconnectClosed THEN streams
    ELSE [streams EXCEPT
              !["upload"] = [@ EXCEPT !["woken"] = @ + streams["upload"]["blocked"],
                                      !["blocked"] = 0]]

\* runUploadStream and runReceiveStream, the creation of the stream (created
\* says whether it could): the monitor loop starts, or
\* OnRemoteBecameUnavailable and the return
TaskCreateStream(kind, created) ==
    /\ taskStreams[kind]["create"] > 0
    /\ IF created
       THEN /\ taskStreams' = [taskStreams EXCEPT
                   ![kind] = TaskMoves(@, "create", "monitor")]
            /\ UNCHANGED taskRemote
       ELSE /\ taskStreams' = TaskCloseWakes(taskRemote,
                   [taskStreams EXCEPT ![kind] = TaskReturns(@, "create")])
            /\ taskRemote' = TaskOnRemoteBecameUnavailable(taskRemote)
    /\ UNCHANGED nonTaskVars

\* the top of the monitor loops, which reads rc.reconnectChan: with the
\* channel closed the monitor returns without an error and so does the
\* goroutine; otherwise the upload goroutine blocks in its select and the
\* receive goroutine, whose select has a default case, in stream.Recv
TaskMonitorSelects(kind) ==
    /\ taskStreams[kind]["monitor"] > 0
    /\ taskStreams' = [taskStreams EXCEPT
           ![kind] = IF taskRemote.reconnectClosed
                     THEN TaskReturns(@, "monitor")
                     ELSE TaskMoves(@, "monitor", "blocked")]
    /\ UNCHANGED taskRemote
    /\ UNCHANGED nonTaskVars

\* the select of monitorClientChanForFileUploading takes the closed
\* channel it holds: the goroutine returns
TaskWokenReturns ==
    /\ taskStreams["upload"]["woken"] > 0
    /\ taskStreams' = [taskStreams EXCEPT !["upload"] = TaskReturns(@, "woken")]
    /\ UNCHANGED taskRemote
    /\ UNCHANGED nonTaskVars

\* a file was uploaded, an object was received: the next turn of the loop
TaskMonitorLoops(kind) ==
    /\ taskStreams[kind]["blocked"] > 0
    /\ taskStreams' = [taskStreams EXCEPT ![kind] = TaskMoves(@, "blocked", "monitor")]
    /\ UNCHANGED taskRemote
    /\ UNCHANGED nonTaskVars

\* the errors a monitor returns: uploadFileByChunks fails, or Recv of the
\* first chunk of an object (needRecreateStream false); Recv inside
\* receiveObjFileByChunks gives needRecreateStream true
TaskErrors(kind) ==
    IF kind = "receive" THEN {"failed", "failedUnauth", "failedRecreate"}
    ELSE {"failed", "failedUnauth"}

\* monitorClientChanForFileUploading and monitorRemoteStreamForObjReceiving
\* return an error
TaskMonitorFails(kind, err) ==
    /\ taskStreams[kind]["blocked"] > 0
    /\ err \in TaskErrors(kind)
    /\ taskStreams' = [taskStreams EXCEPT ![kind] = TaskMoves(@, "blocked", err)]
    /\ UNCHANGED taskRemote
    /\ UNCHANGED nonTaskVars

\* runUploadStream and runReceiveStream after the error: whether the
\* goroutine goes on to the sleep and `go rc.CreateUploadStream()` or
\* `go rc.CreateReceiveStream()`
RecreatesStream(remote, err) ==
    \/ err = "failedRecreate"
    \/ err = "failed" /\ ~remote.reconnectClosed

\* runUploadStream and runReceiveStream after the error of the monitor: the
\* return when reconnectChan is closed, OnRemoteBecameUnavailable on
\* Unauthenticated, else the new goroutine after the sleep; the old one
\* returns
TaskHandleError(kind, err) ==
    /\ err \in TaskErrors(kind)
    /\ taskStreams[kind][err] > 0
    /\ IF RecreatesStream(taskRemote, err)
       THEN /\ taskStreams' = [taskStreams EXCEPT
                   ![kind] = TaskMoves(@, err, "create")]
            /\ UNCHANGED taskRemote
       ELSE IF err = "failedUnauth" /\ ~taskRemote.reconnectClosed
       THEN /\ taskStreams' = TaskCloseWakes(taskRemote,
                   [taskStreams EXCEPT ![kind] = TaskReturns(@, err)])
            /\ taskRemote' = TaskOnRemoteBecameUnavailable(taskRemote)
       ELSE /\ taskStreams' = [taskStreams EXCEPT ![kind] = TaskReturns(@, err)]
            /\ UNCHANGED taskRemote
    /\ UNCHANGED nonTaskVars

\* reconnectRemote calls SetupConnection: `remote.reconnectChan = make(chan
\* struct{})`
TaskSetupConnection ==
    /\ taskRemote.reconnect = "waiting"
    /\ taskRemote' = [taskRemote EXCEPT !.reconnectClosed = FALSE,
                                        !.reconnect = "setup"]
    /\ UNCHANGED taskStreams
    /\ UNCHANGED nonTaskVars

\* SetupConnection returns: with the worker reached (connected)
\* startFileMonitoring has started a goroutine of each stream and
\* reconnectRemote stores isUnavailable = false; otherwise the next
\* reconnection is awaited
TaskSetupReturns(connected) ==
    /\ taskRemote.reconnect = "setup"
    /\ IF connected
       THEN /\ \A kind \in StreamKinds : TaskCount(taskStreams[kind]) < MaxTasks
            /\ taskStreams' = [kind \in StreamKinds |->
                   [taskStreams[kind] EXCEPT !["create"] = @ + 1]]
            /\ taskRemote' = [taskRemote EXCEPT !.isUnavailable = FALSE,
                                                !.reconnect = "none"]
       ELSE /\ taskRemote' = [taskRemote EXCEPT !.reconnect = "waiting"]
            /\ UNCHANGED taskStreams
    /\ UNCHANGED nonTaskVars

TaskNext ==
    \/ \E kind \in StreamKinds, created \in BOOLEAN : TaskCreateStream(kind, created)
    \/ \E kind \in StreamKinds : TaskMonitorSelects(kind)
    \/ TaskWokenReturns
    \/ \E kind \in StreamKinds : TaskMonitorLoops(kind)
    \/ \E kind \in StreamKinds, err \in TaskPositions : TaskMonitorFails(kind, err)
    \/ \E kind \in StreamKinds, err \in TaskPositions : TaskHandleError(kind, err)
    \/ TaskSetupConnection
    \/ \E connected \in BOOLEAN : TaskSetupReturns(connected)

(***************************************************************************)
(* The clients storage of a worker for one clientID: StartClient,          *)
(* StopClient, the purge of inactive clients and StopAllClients, each      *)
(* closing chanDisconnected of a Client.                                   *)
(***************************************************************************)
ClientInstances == 1..MaxClientInstances

NoDeleters == [c \in ClientInstances |-> [pc \in {"delete", "close"} |-> 0]]

RECURSIVE DeletersUpTo(_, _)
DeletersUpTo(deleters, c) ==
    IF c = 0 THEN 0
    ELSE deleters[c]["delete"] + deleters[c]["close"] + DeletersUpTo(deleters, c - 1)

DeletersCount(deleters) == DeletersUpTo(deleters, MaxClientInstances)

\* the daemon has sent StartClient: a Client is in the table
CliInit ==
    /\ cliStorage = [table |-> 1, created |-> 1, stopped |-> FALSE]
    /\ cliClosed = [c \in ClientInstances |-> 0]
    /\ cliTasks = [deleters |-> NoDeleters, starter |-> [pc |-> "idle", client |-> 0]]

CliIdle ==
    /\ cliStorage = [table |-> 0, created |-> 0, stopped |-> FALSE]
    /\ cliClosed = [c \in ClientInstances |-> 0]
    /\ cliTasks = [deleters |-> NoDeleters, starter |-> [pc |-> "idle", client |-> 0]]

\* close(client.chanDisconnected); closing a closed channel panics, which
\* the count 2 stands for
CloseChan(closed, c) == [closed EXCEPT ![c] = IF @ < 2 THEN @ + 1 ELSE @]

\* NoccServer.StopClient: GetClient reads the table, and for a Client found
\* `go s.ActiveClients.DeleteClient(client)`
StopClient ==
    /\ cliStorage.table # 0
    /\ DeletersCount(cliTasks.deleters) < MaxDeleters
    /\ cliTasks' = [cliTasks EXCEPT !.deleters[cliStorage.table]["delete"] = @ + 1]
    /\ UNCHANGED <<cliStorage, cliClosed>>
    /\ UNCHANGED nonCliVars

\* ClientsStorage.DeleteInactiveClients: a Client not seen for 5 minutes is
\* read from the table under the read lock and DeleteClient is called
CliDeleteInactiveClients ==
    /\ ~cliStorage.stopped
    /\ cliStorage.table # 0
    /\ DeletersCount(cliTasks.deleters) < MaxDeleters
    /\ cliTasks' = [cliTasks EXCEPT !.deleters[cliStorage.table]["delete"] = @ + 1]
    /\ UNCHANGED <<cliStorage, cliClosed>>
    /\ UNCHANGED nonCliVars

\* delete(allClients.table, client.clientID) under the lock: the entry of
\* the clientID goes, whichever Client it holds
TableWithout(table, c) == 0

\* ClientsStorage.DeleteClient, the removal from the table
CliDeleteFromTable(c) ==
    /\ cliTasks.deleters[c]["delete"] > 0
    /\ cliStorage' = [cliStorage EXCEPT !.table = TableWithout(@, c)]
    /\ cliTasks' = [cliTasks EXCEPT !.deleters[c]["delete"] = @ - 1,
                                    !.deleters[c]["close"] = @ + 1]
    /\ UNCHANGED cliClosed
    /\ UNCHANGED nonCliVars

\* ClientsStorage.DeleteClient, close(client.chanDisconnected) after the
\* lock is released
CliDeleteCloses(c) ==
    /\ cliTasks.deleters[c]["close"] > 0
    /\ cliClosed' = CloseChan(cliClosed, c)
    /\ cliTasks' = [cliTasks EXCEPT !.deleters[c]["close"] = @ - 1]
    /\ UNCHANGED cliStorage
    /\ UNCHANGED nonCliVars

\* NoccServer.StartClient, ClientsStorage.OnClientConnected: the table is
\* read under the read lock
OnClientConnected ==
    /\ cliTasks.starter.pc = "idle"
    /\ cliStorage.created < MaxClientInstances
    /\ cliTasks' = [cliTasks EXCEPT !.starter =
           IF cliStorage.table # 0
           THEN [pc |-> "delete", client |-> cliStorage.table]
           ELSE [pc |-> "create", client |-> 0]]
    /\ UNCHANGED <<cliStorage, cliClosed>>
    /\ UNCHANGED nonCliVars

\* OnClientConnected, `if client != nil`: DeleteClient of the old Client,
\* first the table, then the channel
CliStarterDeletes ==
    /\ cliTasks.starter.pc \in {"delete", "close"}
    /\ IF cliTasks.starter.pc = "delete"
       THEN /\ cliStorage' = [cliStorage EXCEPT
                   !.table = TableWithout(@, cliTasks.starter.client)]
            /\ cliTasks' = [cliTasks EXCEPT !.starter.pc = "close"]
            /\ UNCHANGED cliClosed
       ELSE /\ cliClosed' = CloseChan(cliClosed, cliTasks.starter.client)
            /\ cliTasks' = [cliTasks EXCEPT !.starter.pc = "create"]
            /\ UNCHANGED cliStorage
    /\ UNCHANGED nonCliVars

\* OnClientConnected: the new Client, with a new chanDisconnected, is put
\* into the table
CliStarterCreates ==
    /\ cliTasks.starter.pc = "create"
    /\ cliStorage' = [cliStorage EXCEPT !.table = cliStorage.created + 1,
                                        !.created = @ + 1]
    /\ cliTasks' = [cliTasks EXCEPT !.starter = [pc |-> "idle", client |-> 0]]
    /\ UNCHANGED cliClosed
    /\ UNCHANGED nonCliVars

\* ClientsStorage.StopAllClients, called by QuitServerGracefully: under the
\* lock chanDisconnected of every Client in the table is closed and the
\* table is replaced by an empty one
StopAllClients ==
    /\ ~cliStorage.stopped
    /\ cliClosed' = IF cliStorage.table # 0
                    THEN CloseChan(cliClosed, cliStorage.table)
                    ELSE cliClosed
    /\ cliStorage' = [cliStorage EXCEPT !.table = 0, !.stopped = TRUE]
    /\ UNCHANGED cliTasks
    /\ UNCHANGED nonCliVars

CliNext ==
    \/ StopClient
    \/ CliDeleteInactiveClients
    \/ \E c \in ClientInstances : CliDeleteFromTable(c)
    \/ \E c \in ClientInstances : CliDeleteCloses(c)
    \/ OnClientConnected
    \/ CliStarterDeletes
    \/ CliStarterCreates
    \/ StopAllClients

(***************************************************************************)
(* The dependencies of a session as the daemon lists them and as the       *)
(* worker gathers them for the object-cache key.                           *)
(***************************************************************************)
\* a file with its content: FileMetadata has the sha256 and the size
KeyFile(name, content) ==
    [FileName |-> name, fileSHA256 |-> MakeSHA256Struct(content),
     fileSize |-> Len(content)]

KeyContents == {<<1, 2, 3>>, <<3, 2, 1>>}

NoPchFile == [FileName |-> <<>>, fileSHA256 |-> EmptySHA256, fileSize |-> 0]

\* the headers, the input file and the PCH sidecar an invocation may have
KeyHFiles == {<<>>} \cup {<<KeyFile(RelXH, c)>> : c \in KeyContents}
KeyCppFiles == {KeyFile(PathAFoo, c) : c \in KeyContents}
KeyPchFiles == {NoPchFile} \cup {KeyFile(ArgIncludePch, c) : c \in KeyContents}

KeyIdle ==
    /\ keyRequests = [s \in 1..NumKeySessions |-> <<>>]
    /\ keySessions = [s \in 1..NumKeySessions |-> <<>>]

\* CompileCppRemotely: requiredFiles holds the headers, the input file and,
\* when there is one, the PCH sidecar, which is RequiredPchFile as well
RequiredFilesOf(hFiles, cppFile, sidecar) ==
    IF sidecar = NoPchFile THEN Append(hFiles, cppFile)
    ELSE Append(Append(hFiles, cppFile), sidecar)

\* CompileCppRemotely up to the request of StartCompilationSession
KeyCompileCppRemotely(s, hFiles, cppFile, sidecar) ==
    /\ keyRequests[s] = <<>>
    /\ keyRequests' = [keyRequests EXCEPT ![s] =
           [Compiler |-> <<103, 43, 43>>, CompilerArgs |-> <<ArgC, ArgO2>>,
            InputFile |-> cppFile.FileName,
            RequiredFiles |-> RequiredFilesOf(hFiles, cppFile, sidecar),
            RequiredPchFile |-> sidecar]]
    /\ UNCHANGED keySessions
    /\ UNCHANGED nonKeyVars

\* CreateNewSession: session.files is one file per element of
\* RequiredFiles, and the file of RequiredPchFile appended
SessionFilesOf(requiredFiles, requiredPchFile) ==
    IF requiredPchFile = NoPchFile THEN requiredFiles
    ELSE Append(requiredFiles, requiredPchFile)

\* NoccServer.StartCompilationSession: CreateNewSession and MakeObjCacheKey
\* over session.files
KeyStartCompilationSession(s) ==
    /\ keyRequests[s] # <<>>
    /\ keySessions[s] = <<>>
    /\ LET in == keyRequests[s]
           files == SessionFilesOf(in.RequiredFiles, in.RequiredPchFile)
       IN keySessions' = [keySessions EXCEPT ![s] =
              [files |-> files,
               objCacheKey |-> MakeObjCacheKey(in.Compiler, in.CompilerArgs,
                                               files, in.InputFile)]]
    /\ UNCHANGED keyRequests
    /\ UNCHANGED nonKeyVars

KeyNext ==
    \/ \E s \in 1..NumKeySessions, hFiles \in KeyHFiles, cppFile \in KeyCppFiles,
          sidecar \in KeyPchFiles : KeyCompileCppRemotely(s, hFiles, cppFile, sidecar)
    \/ \E s \in 1..NumKeySessions : KeyStartCompilationSession(s)

(***************************************************************************)
(* The ready channel of a client that is stopped or purged: the tasks      *)
(* pushing finished sessions and the handler of RecvCompiledObjStream.     *)
(* chanReadySessions has 200 places; ReadyChanCap stands for them.         *)
(***************************************************************************)
RdyStart ==
    /\ rdyClient = [disconnected |-> FALSE, chanReadySessions |-> <<>>]
    /\ rdyTasks = [handler |-> [pc |-> "returned", session |-> 0],
                   pushers |-> [s \in 1..NumRdySessions |-> "compiling"]]

RdyInit == RdyStart

RdyIdle == RdyStart

\* the select of PushToClientReadyChannel waits on chanDisconnected only
PushCasesSendOnly(client) ==
    IF Len(client.chanReadySessions) < ReadyChanCap THEN {"send"} ELSE {}

\* the cases of the select of PushToClientReadyChannel that can proceed:
\* chanDisconnected is closed, chanReadySessions has a free place
PushCases(client) ==
    (IF client.disconnected THEN {"disconnected"} ELSE {})
        \cup (IF Len(client.chanReadySessions) < ReadyChanCap THEN {"send"} ELSE {})

\* the compiler of a session ends; its task reaches PushToClientReadyChannel
RdyCompilerEnds(s) ==
    /\ rdyTasks.pushers[s] = "compiling"
    /\ rdyTasks' = [rdyTasks EXCEPT !.pushers[s] = "pushing"]
    /\ UNCHANGED rdyClient
    /\ UNCHANGED nonRdyVars

\* Session.PushToClientReadyChannel: the select takes one of the cases that
\* can proceed and the task returns; with none the task stays blocked
RdyPushToClientReadyChannel(s, case) ==
    /\ rdyTasks.pushers[s] = "pushing"
    /\ case \in PushCases(rdyClient)
    /\ IF case = "send"
       THEN /\ rdyClient' = [rdyClient EXCEPT !.chanReadySessions = Append(@, s)]
            /\ rdyTasks' = [rdyTasks EXCEPT !.pushers[s] = "pushed"]
       ELSE /\ rdyTasks' = [rdyTasks EXCEPT !.pushers[s] = "dropped"]
            /\ UNCHANGED rdyClient
    /\ UNCHANGED nonRdyVars

\* NoccServer.RecvCompiledObjStream, called when the daemon opens its
\* receive stream: GetClient finds the client unless it was deleted
RdyOpenStream ==
    /\ rdyTasks.handler.pc = "returned"
    /\ ~rdyClient.disconnected
    /\ rdyTasks' = [rdyTasks EXCEPT !.handler.pc = "select"]
    /\ UNCHANGED rdyClient
    /\ UNCHANGED nonRdyVars

\* the cases of the select of RecvCompiledObjStream that can proceed
RecvCases(client) ==
    (IF client.disconnected THEN {"disconnected"} ELSE {})
        \cup (IF client.chanReadySessions # <<>> THEN {"session"} ELSE {})

\* RecvCompiledObjStream, the select of its loop: the return on
\* chanDisconnected, or a session taken from chanReadySessions
RdyRecvSelect(case) ==
    /\ rdyTasks.handler.pc = "select"
    /\ case \in RecvCases(rdyClient)
    /\ IF case = "session"
       THEN /\ rdyTasks' = [rdyTasks EXCEPT !.handler =
                   [pc |-> "sending", session |-> Head(rdyClient.chanReadySessions)]]
            /\ rdyClient' = [rdyClient EXCEPT !.chanReadySessions = Tail(@)]
       ELSE /\ rdyTasks' = [rdyTasks EXCEPT !.handler = [pc |-> "returned", session |-> 0]]
            /\ UNCHANGED rdyClient
    /\ UNCHANGED nonRdyVars

\* RecvCompiledObjStream after the select: the result is sent and the
\* session closed, or the send fails and the handler returns the error
RdyRecvSends(sent) ==
    /\ rdyTasks.handler.pc = "sending"
    /\ rdyTasks' = [rdyTasks EXCEPT !.handler =
           [pc |-> IF sent THEN "select" ELSE "returned", session |-> 0]]
    /\ UNCHANGED rdyClient
    /\ UNCHANGED nonRdyVars

\* ClientsStorage.DeleteClient (StopClient, the purge of inactive clients):
\* close(client.chanDisconnected)
RdyDeleteClient ==
    /\ ~rdyClient.disconnected
    /\ rdyClient' = [rdyClient EXCEPT !.disconnected = TRUE]
    /\ UNCHANGED rdyTasks
    /\ UNCHANGED nonRdyVars

RdyNext ==
    \/ \E s \in 1..NumRdySessions : RdyCompilerEnds(s)
    \/ \E s \in 1..NumRdySessions, case \in {"send", "disconnected"} :
           RdyPushToClientReadyChannel(s, case)
    \/ RdyOpenStream
    \/ \E case \in {"session", "disconnected"} : RdyRecvSelect(case)
    \/ \E sent \in BOOLEAN : RdyRecvSends(sent)
    \/ RdyDeleteClient

(***************************************************************************)
(* The specifications.                                                     *)
(***************************************************************************)
vars == <<shardVars, daemonVars, serverVars, handlerVars, pchVars, sockVars, localVars, objVars, upVars, reconVars, taskVars, cliVars, keyVars, rdyVars>>

\* the worker selection alone: a daemon that serves no invocation yet
ShardSpecInit ==
    ShardInit /\ DaemonInit /\ ~isUnavailable /\ ServerInit /\ HandlerIdle /\ PchIdle
        /\ SockInit
        /\ RdyIdle
        /\ KeyIdle
        /\ CliIdle
        /\ TaskInit
        /\ ReconInit
        /\ UpIdle
        /\ ObjIdle
        /\ LocalIdle

SpecShard == ShardSpecInit /\ [][ShardNext]_vars

\* the daemon configured with one worker
DaemonSpecInit ==
    ShardInit /\ shardWorkers = 1 /\ shardUnavailable = {} /\ DaemonInit
        /\ ServerInit /\ HandlerIdle /\ PchIdle
        /\ SockInit
        /\ RdyIdle
        /\ KeyIdle
        /\ CliIdle
        /\ TaskInit
        /\ ReconInit
        /\ UpIdle
        /\ ObjIdle
        /\ LocalIdle

SpecDaemon == DaemonSpecInit /\ [][DaemonNext]_vars

\* the steps of the goroutine that serves invocation i: each is taken once
\* it can be (the Go scheduler runs every runnable goroutine, the request to
\* the worker returns, the local compiler ends)
InvocationStep(i) ==
    \/ HandleInvocationRegister(i)
    \/ \E ok \in BOOLEAN : CompileCollect(i, ok)
    \/ StartSessionCheck(i)
    \/ \E ok \in BOOLEAN, n \in 0..MaxUploads : StartSessionRpc(i, ok, n)
    \/ UploadFilesAdd(i)
    \/ UploadFilesWait(i)
    \/ WaitForCompiledObj(i)
    \/ HandleInvocationUnregister(i)
    \/ \E disabled \in BOOLEAN : InvokeLocalCompilation(i, disabled)

\* the steps of a running ForceInterrupt and of QuitDaemonGracefully
InterruptStep ==
    \/ ForceLoad
    \/ ForceDoneUpload
    \/ ForceDoneRecv
    \/ QuitLock
    \/ \E i \in 1..NumInv : QuitForce(i)
    \/ QuitUnlock

\* the daemon with its goroutines scheduled fairly and the timeout task
\* passing every 10 seconds: an invocation that keeps waiting is interrupted
\* at some pass.  What the worker does is not fair: an upload may never end
\* and an object may never arrive
DaemonFairness ==
    /\ \A i \in 1..NumInv : WF_vars(InvocationStep(i))
    /\ \A i \in 1..NumInv : SF_vars(TimeoutForce(i))
    /\ WF_vars(InterruptStep)

SpecDaemonFair == DaemonSpecInit /\ [][DaemonNext]_vars /\ DaemonFairness

\* the worker alone, whatever its clients send
ServerSpecInit ==
    ShardInit /\ shardWorkers = 1 /\ shardUnavailable = {} /\ DaemonInit
        /\ ~isUnavailable /\ ServerInit /\ HandlerIdle /\ PchIdle
        /\ SockInit
        /\ RdyIdle
        /\ KeyIdle
        /\ CliIdle
        /\ TaskInit
        /\ ReconInit
        /\ UpIdle
        /\ ObjIdle
        /\ LocalIdle

SpecServer == ServerSpecInit /\ [][ServerNext]_vars

\* one request from the command line to the reply
HandlerSpecInit ==
    ShardInit /\ shardWorkers = 1 /\ shardUnavailable = {} /\ DaemonInit
        /\ ~isUnavailable /\ ServerInit /\ HandlerInit /\ PchIdle
        /\ SockInit
        /\ RdyIdle
        /\ KeyIdle
        /\ CliIdle
        /\ TaskInit
        /\ ReconInit
        /\ UpIdle
        /\ ObjIdle
        /\ LocalIdle

SpecHandler == HandlerSpecInit /\ [][HandlerNext]_vars

\* the sessions of one client that need one precompiled header
PchSpecInit ==
    ShardInit /\ shardWorkers = 1 /\ shardUnavailable = {} /\ DaemonInit
        /\ ~isUnavailable /\ ServerInit /\ HandlerIdle /\ PchInit
        /\ SockInit
        /\ RdyIdle
        /\ KeyIdle
        /\ CliIdle
        /\ TaskInit
        /\ ReconInit
        /\ UpIdle
        /\ ObjIdle
        /\ LocalIdle

SpecPch == PchSpecInit /\ [][PchNext]_vars

\* the daemon's socket alone
SockSpecInit ==
    ShardInit /\ shardWorkers = 1 /\ shardUnavailable = {} /\ DaemonInit
        /\ ~isUnavailable /\ ServerInit /\ HandlerIdle /\ PchIdle
        /\ SockInit
        /\ RdyIdle
        /\ KeyIdle
        /\ CliIdle
        /\ TaskInit
        /\ ReconInit
        /\ UpIdle
        /\ ObjIdle
        /\ LocalIdle

SpecSock == SockSpecInit /\ [][SockNext]_vars

\* the local compiler alone
LocalSpecInit ==
    ShardInit /\ shardWorkers = 1 /\ shardUnavailable = {} /\ DaemonInit
        /\ ~isUnavailable /\ ServerInit /\ HandlerIdle /\ PchIdle
        /\ SockInit
        /\ RdyIdle
        /\ KeyIdle
        /\ CliIdle
        /\ TaskInit
        /\ ReconInit
        /\ UpIdle
        /\ ObjIdle
        /\ LocalInit

SpecLocal == LocalSpecInit /\ [][LocalNext]_vars

\* the worker whose launcher goroutines, once started, get to run, and whose
\* compilers end
ServerFairness ==
    \A s \in 1..NumSessions :
        WF_vars(\E exitCode \in {0, 1} :
                    LaunchCompilerWhenPossible(s, exitCode, NoCompilerOutput))

\* the sessions of one client, which share their files, with compilers that
\* print nothing
OneClient == "c1"

OneClientRequests == {r \in 1..Len(Requests) : Requests[r].ClientID = OneClient}

ServerOneClientNext ==
    \/ \E s \in 1..NumSessions, r \in OneClientRequests :
           StartCompilationSession(s, r)
    \/ \E s \in 1..NumSessions, hanged \in BOOLEAN : StartSessionFile(s, hanged)
    \/ \E s \in 1..NumSessions : StartSessionReply(s)
    \/ \E s \in 1..NumSessions, index \in 0..1, ok \in BOOLEAN :
           UploadFileStream(s, index, ok)
    \/ \E s \in 1..NumSessions, exitCode \in {0, 1} :
           LaunchCompilerWhenPossible(s, exitCode, NoCompilerOutput)
    \/ RecvCompiledObjStream(OneClient)

SpecServerFair == ServerSpecInit /\ [][ServerOneClientNext]_vars /\ ServerFairness

\* the stream of compiled objects alone
ObjSpecInit ==
    ShardInit /\ shardWorkers = 1 /\ shardUnavailable = {} /\ DaemonInit
        /\ ~isUnavailable /\ ServerInit /\ HandlerIdle /\ PchIdle
        /\ SockInit
        /\ RdyIdle
        /\ KeyIdle
        /\ CliIdle
        /\ TaskInit
        /\ ReconInit
        /\ UpIdle
        /\ LocalIdle
        /\ ObjInit

SpecObj == ObjSpecInit /\ [][ObjNext]_vars

\* the upload stream alone
UpSpecInit ==
    ShardInit /\ shardWorkers = 1 /\ shardUnavailable = {} /\ DaemonInit
        /\ ~isUnavailable /\ ServerInit /\ HandlerIdle /\ PchIdle
        /\ SockInit
        /\ RdyIdle
        /\ KeyIdle
        /\ CliIdle
        /\ TaskInit
        /\ ReconInit
        /\ LocalIdle
        /\ ObjIdle
        /\ UpInit

SpecUp == UpSpecInit /\ [][UpNext]_vars

\* the worker whose goroutines of StartCompilingPchIfPossible run, whose
\* compilers end, whose uploads end and whose receive stream sends what is
\* pushed
PchFairness ==
    \A s \in 1..NumPchSessions :
        /\ WF_vars(PchCheckCompiled(s))
        /\ WF_vars(PchSwap(s))
        /\ WF_vars(\E parsed \in BOOLEAN : PchLookup(s, parsed))
        /\ WF_vars(\E exitCode \in {0, 1} : PchExecCompiler(s, exitCode))
        /\ WF_vars(PchStore(s))
        /\ WF_vars(PchCheckError(s))
        /\ WF_vars(PchRecvCompiledObjStream(s))
        /\ WF_vars(\E ok \in BOOLEAN : PchUploadFileStream(s, ok))

SpecPchFair == PchSpecInit /\ [][PchNext]_vars /\ PchFairness

\* the reconnection of a worker alone
ReconSpecInit ==
    ShardInit /\ shardWorkers = 1 /\ shardUnavailable = {} /\ DaemonInit
        /\ ~isUnavailable /\ ServerInit /\ HandlerIdle /\ PchIdle
        /\ SockInit
        /\ RdyIdle
        /\ KeyIdle
        /\ CliIdle
        /\ TaskInit
        /\ LocalIdle
        /\ ObjIdle
        /\ UpIdle
        /\ ReconInit

SpecRecon == ReconSpecInit /\ [][ReconNext]_vars

\* the stream goroutines of a worker alone
TaskSpecInit ==
    ShardInit /\ shardWorkers = 1 /\ shardUnavailable = {} /\ DaemonInit
        /\ ~isUnavailable /\ ServerInit /\ HandlerIdle /\ PchIdle
        /\ SockInit
        /\ RdyIdle
        /\ KeyIdle
        /\ CliIdle
        /\ LocalIdle
        /\ ObjIdle
        /\ UpIdle
        /\ ReconInit
        /\ TaskInit

SpecTask == TaskSpecInit /\ [][TaskNext]_vars

\* the clients storage of a worker alone
CliSpecInit ==
    ShardInit /\ shardWorkers = 1 /\ shardUnavailable = {} /\ DaemonInit
        /\ ~isUnavailable /\ ServerInit /\ HandlerIdle /\ PchIdle
        /\ SockInit
        /\ RdyIdle
        /\ KeyIdle
        /\ LocalIdle
        /\ ObjIdle
        /\ UpIdle
        /\ ReconInit
        /\ TaskInit
        /\ CliInit

SpecCli == CliSpecInit /\ [][CliNext]_vars

\* the dependencies and the object-cache key of two sessions alone
KeySpecInit ==
    ShardInit /\ shardWorkers = 1 /\ shardUnavailable = {} /\ DaemonInit
        /\ ~isUnavailable /\ ServerInit /\ HandlerIdle /\ PchIdle
        /\ SockInit
        /\ RdyIdle
        /\ LocalIdle
        /\ ObjIdle
        /\ UpIdle
        /\ ReconInit
        /\ TaskInit
        /\ CliIdle
        /\ KeyIdle

SpecKey == KeySpecInit /\ [][KeyNext]_vars

\* a select with a case that can proceed proceeds, a send on the stream
\* ends, a running compiler ends
RdyFairness ==
    /\ \A s \in 1..NumRdySessions :
           /\ WF_vars(RdyCompilerEnds(s))
           /\ WF_vars(\E case \in {"send", "disconnected"} :
                          RdyPushToClientReadyChannel(s, case))
    /\ WF_vars(\E case \in {"session", "disconnected"} : RdyRecvSelect(case))
    /\ WF_vars(\E sent \in BOOLEAN : RdyRecvSends(sent))

\* the ready channel of one client alone
RdySpecInit ==
    ShardInit /\ shardWorkers = 1 /\ shardUnavailable = {} /\ DaemonInit
        /\ ~isUnavailable /\ ServerInit /\ HandlerIdle /\ PchIdle
        /\ SockInit
        /\ LocalIdle
        /\ ObjIdle
        /\ UpIdle
        /\ ReconInit
        /\ TaskInit
        /\ CliIdle
        /\ KeyIdle
        /\ RdyInit

SpecRdy == RdySpecInit /\ [][RdyNext]_vars

SpecRdyFair == RdySpecInit /\ [][RdyNext]_vars /\ RdyFairness

\* known values of FNV-1a: "" -> 0x811C9DC5, "a" -> 0xE40C292C
FnvVectorsOk ==
    /\ Sum32(<<>>) = [hi |-> 33052, lo |-> 40389]
    /\ Sum32(<<97>>) = [hi |-> 58380, lo |-> 10540]

\* C5: every choice made for a worker list of length n is the index
\* FNV-1a-32(base name of the input path) mod n, lies within 0..n-1, and two
\* choices for the same base name and the same n are the same index whatever
\* the directories of the paths and whatever workers are unavailable
C5_ShardByBaseName ==
    \A i \in 1..NumShardInv :
        shardChosen[i] # NoChoice =>
            /\ shardChosen[i].index \in 0..(shardChosen[i].n - 1)
            /\ shardChosen[i].index =
                   IntMod(Sum32(Base(shardChosen[i].path)), shardChosen[i].n)
            /\ \A j \in 1..NumShardInv :
                   (/\ shardChosen[j] # NoChoice
                    /\ Base(shardChosen[j].path) = Base(shardChosen[i].path)
                    /\ shardChosen[j].n = shardChosen[i].n)
                   => shardChosen[j].index = shardChosen[i].index

\* two invocations of one base name in different directories, chosen while
\* different sets of workers were unavailable, among at least two workers, and
\* the index chosen is not the first one
C5_Witness ==
    /\ shardWorkers >= 2
    /\ shardChosen[1] # NoChoice
    /\ shardChosen[2] # NoChoice
    /\ shardChosen[1].path # shardChosen[2].path
    /\ Base(shardChosen[1].path) = Base(shardChosen[2].path)
    /\ shardChosen[1].unavailable # shardChosen[2].unavailable
    /\ shardChosen[1].index > 0
    /\ shardChosen[1].index \in shardChosen[1].unavailable

(***************************************************************************)
(* Properties of the daemon.                                               *)
(***************************************************************************)
\* C1: every accepted invocation completes exactly once: it never has more
\* than one response, a response is the worker's result, the local
\* fallback's result or the forced error, and the daemon never reaches a
\* state in which an accepted invocation is left without a response because
\* the process was ended by a panic
C1_CompletesExactlyOnce ==
    \A i \in 1..NumInv :
        /\ invocations[i].responses <= 1
        /\ invocations[i].responses = 1 =>
               invocations[i].kind \in {"remote", "local", "error"}
        /\ panicked => invocations[i].pc \in {"idle", "done"}

\* C4 (as the claim states it): no StartCompilationSession request is sent
\* while the worker's isUnavailable flag is set
C4_NoRequestWhileUnavailable ==
    \A i \in 1..NumInv : ~invocations[i].requestWhileUnavailable

\* C4 (amended): a StartCompilationSession request is sent only after the
\* check in front of it found the flag clear, and an invocation that found
\* the flag set sends no request and is never answered with a remote result
C4_RequestOnlyAfterClearCheck ==
    \A i \in 1..NumInv :
        /\ (invocations[i].pc = "rpc" \/ invocations[i].requests > 0) =>
               ~invocations[i].checkedFlag
        /\ invocations[i].sawUnavailable =>
               /\ invocations[i].requests = 0
               /\ invocations[i].kind # "remote"

\* one invocation found the flag set at the check inside
\* StartCompilationSession and was answered locally without a request, and
\* the other one passed the check and sent its request
C4_Witness ==
    \E i, j \in 1..NumInv :
        /\ invocations[i].sawUnavailable
        /\ invocations[i].wgRecv = 0 /\ invocations[i].pc = "done"
        /\ invocations[i].kind = "local"
        /\ invocations[j].requests > 0
        /\ ~invocations[j].checkedFlag

(***************************************************************************)
(* The worker's sessions.                                                  *)
(***************************************************************************)
\* the sessions whose Session object the worker holds
Created(s) == sessions[s].pc \in {"loop", "replied"}

\* the sessions of a client whose reply asks for a file name
SessionsListing(clientID, fileName) ==
    {s \in 1..NumSessions :
        /\ Created(s)
        /\ sessions[s].clientID = clientID
        /\ ListsFile(sessions[s], fileName)}

\* C2: the compiler is launched at most once for every session, however
\* many launcher goroutines the sweeps after session creation and after
\* completed uploads have started for it.
C2_CompilerLaunchedAtMostOnce ==
    \A s \in 1..NumSessions : sessions[s].launches <= 1

\* a session whose compiler was launched while another launcher goroutine
\* of the same session, started by another sweep, has yet to run
C2_Witness ==
    \E s \in 1..NumSessions :
        /\ sessions[s].launches = 1
        /\ sessions[s].launchers > 0
        /\ ~sessions[s].closed

\* C3 (as the claim states it): of the sessions of one client that depend
\* on the same file, no two are asked to upload it.
C3_AtMostOneReplyListsFile ==
    \A clientID \in ClientIDs, fileName \in FileNames :
        Cardinality(SessionsListing(clientID, fileName)) <= 1

\* C3 (amended): of the sessions of one client that depend on the same
\* file, at most one is asked for it because the file was new; every other
\* session asked for it found the earlier upload hanged or ended in an
\* error, so that the replies listing the file are at most one more than
\* the uploads found hanged or broken.
C3_OneRequestUnlessHangedOrError ==
    \A clientID \in ClientIDs, fileName \in FileNames :
        /\ Cardinality({s \in SessionsListing(clientID, fileName) :
               \E k \in 1..Len(sessions[s].reply) :
                   /\ sessions[s].files[sessions[s].reply[k].index + 1] = fileName
                   /\ sessions[s].reply[k].why = "created"}) <= 1
        /\ Cardinality(SessionsListing(clientID, fileName))
               <= 1 + faults.hanged + faults.broken

\* two sessions of one client, both answered, depend on the same file that
\* was not on the worker: one was asked to upload it, the other was not,
\* and no upload hanged or broke
C3_Witness ==
    \E s, t \in 1..NumSessions, fileName \in FileNames :
        /\ s # t
        /\ sessions[s].pc = "replied" /\ sessions[t].pc = "replied"
        /\ ~sessions[s].objCacheExists /\ ~sessions[t].objCacheExists
        /\ sessions[s].clientID = sessions[t].clientID
        /\ ListsFile(sessions[s], fileName)
        /\ \E k \in 1..Len(sessions[t].files) : sessions[t].files[k] = fileName
        /\ ~ListsFile(sessions[t], fileName)
        /\ clientFiles[sessions[s].clientID][fileName].state = fsFileStateUploading
        /\ faults.hanged = 0 /\ faults.broken = 0

\* C6: a session created for a compilation that was compiled with exit
\* code 0 before, with the same compiler, input, dependencies and
\* arguments apart from the include paths, finds its key in the obj cache.
C6_RecompilationHitsObjCache ==
    \A s \in 1..NumSessions :
        (Created(s) /\ sessions[s].compiledBefore) => sessions[s].objCacheExists

\* C7: a session whose key was found in the obj cache has an empty reply
\* and no upload to wait for, has compilationStarted set and no compiler
\* launched or to be launched, and sits in the ready channel since the
\* request, with OutputFile the object in the cache.
C7_ObjCacheHit ==
    \A s \in 1..NumSessions :
        sessions[s].objCacheExists =>
            /\ sessions[s].pc = "replied"
            /\ sessions[s].reply = <<>>
            /\ \A index \in 0..1 : <<s, index>> \notin uploads
            /\ sessions[s].compilationStarted = 1
            /\ sessions[s].launches = 0
            /\ sessions[s].launchers = 0
            /\ sessions[s].pushes = 1
            /\ \E k \in 1..Len(chanReadySessions[sessions[s].clientID]) :
                   chanReadySessions[sessions[s].clientID][k] = s
            /\ sessions[s].OutputFile =
                   LookupInCache(objFileCache, sessions[s].objCacheKey)
            /\ sessions[s].OutputFile # <<>>

\* a session answered from the obj cache is still in the ready channel
\* when a later session of the same client, not in the cache, has been
\* answered and swept and has its compiler launched
C7_Witness ==
    \E s, t \in 1..NumSessions :
        /\ s < t
        /\ sessions[s].objCacheExists
        /\ sessions[t].clientID = sessions[s].clientID
        /\ sessions[t].pc = "replied"
        /\ sessions[t].launches = 1

\* C8: two sessions of different clients for the same compiler, the same
\* arguments, the same base name of the input file and dependencies with
\* the same sha256 and size have the same objCacheKey.
C8_KeyIndependentOfClient ==
    \A s, t \in 1..NumSessions :
        (/\ Created(s) /\ Created(t)
         /\ sessions[s].clientID # sessions[t].clientID
         /\ Requests[sessions[s].request].Compiler
                = Requests[sessions[t].request].Compiler
         /\ Requests[sessions[s].request].CompilerArgs
                = Requests[sessions[t].request].CompilerArgs
         /\ SameCompilation(Requests[sessions[s].request],
                            Requests[sessions[t].request]))
            => sessions[s].objCacheKey = sessions[t].objCacheKey

\* two clients with the input file in different directories: the session
\* of the second is answered from the obj cache with the object the
\* first client's session stored
C8_Witness ==
    \E s, t \in 1..NumSessions :
        /\ Created(s) /\ Created(t)
        /\ sessions[s].clientID # sessions[t].clientID
        /\ Requests[sessions[s].request].InputFile
               # Requests[sessions[t].request].InputFile
        /\ sessions[s].launches = 1
        /\ sessions[t].objCacheExists
        /\ sessions[t].objCacheKey = sessions[s].objCacheKey

\* C9: two sessions whose requests differ in the include paths alone have
\* the same objCacheKey.
C9_KeyIgnoresIncludePaths ==
    \A s, t \in 1..NumSessions :
        (/\ Created(s) /\ Created(t)
         /\ SameCompilation(Requests[sessions[s].request],
                            Requests[sessions[t].request]))
            => sessions[s].objCacheKey = sessions[t].objCacheKey

\* C10: no reply asks for a file that an upload of the same client had
\* brought to the state Uploaded before.
C10_UploadedFileNotAskedAgain ==
    \A s \in 1..NumSessions :
        \A k \in 1..Len(sessions[s].reply) : ~sessions[s].reply[k].afterUploaded

\* the index, in the request of a session, of the input file
InputFileIndex(session) ==
    CHOOSE k \in 0..(Len(session.files) - 1) :
        session.files[k + 1] = Requests[session.request].InputFile

WorkersWithSessions ==
    {w \in 0..(MaxRemotes - 1) : hRemote.sessions[w] > 0}

\* C13: when the remote compiler exits with a code other than 0, the reply
\* is its exit code, stdout and stderr, and the local compiler is not run
C13_RemoteCompilerErrorReturned ==
    (/\ hPc = "replied"
     /\ ~hRemote.err
     /\ hRemote.result # NoReply
     /\ hRemote.result.ExitCode # 0)
        => /\ hReply = hRemote.result
           /\ hLocal.runs = 0

\* C14: when the worker chosen for the input file is unavailable (and the
\* local fallback is not disabled), no session is started on any worker, the
\* local compiler runs once, and the reply is what the local compiler
\* returned
C14_UnavailableWorkerCompiledLocally ==
    (/\ hPc = "replied"
     /\ hRemote.chosen \in hReq.unavailable
     /\ ~hReq.disableLocalCompiler)
        => /\ WorkersWithSessions = {}
           /\ hLocal.runs = 1
           /\ hReply = hLocal.result

\* C18: a command line with -E, -I-, -march=native, -M, -MM or -MG, wherever
\* the option stands, is parsed with an error, is not an invocation for
\* remote compilation, and starts no session on a worker
C18_UnsupportedOptionsNeverRemote ==
    (hPc # "accepted" /\ hReq.cmdLine \in UnsupportedCmdLines)
        => /\ hInvocation.err # ""
           /\ hInvocation.invokeType # invokedForCompilingCpp
           /\ hPc \notin {"remote", "compile"}
           /\ WorkersWithSessions = {}

\* a target name with every `$` doubled, as Make reads a literal `$`
RECURSIVE DoubleDollars(_)
DoubleDollars(target) ==
    IF target = <<>> THEN <<>>
    ELSE (IF Head(target) = 36 THEN <<36, 36>> ELSE <<Head(target)>>)
             \o DoubleDollars(Tail(target))

\* the values the command line gives to -MT and to -MQ (these quoted for
\* Make), in the order they are given
RECURSIVE UserTargets(_)
UserTargets(cmdLine) ==
    IF cmdLine = <<>> THEN <<>>
    ELSE LET arg == Head(cmdLine)
         IN IF arg = ArgMT /\ Len(cmdLine) >= 2
            THEN <<cmdLine[2]>> \o UserTargets(Tail(Tail(cmdLine)))
            ELSE IF arg = ArgMQ /\ Len(cmdLine) >= 2
            THEN <<DoubleDollars(cmdLine[2])>> \o UserTargets(Tail(Tail(cmdLine)))
            ELSE IF HasPrefix(arg, ArgMT)
            THEN <<SubSeq(arg, Len(ArgMT) + 1, Len(arg))>>
                     \o UserTargets(Tail(cmdLine))
            ELSE UserTargets(Tail(cmdLine))

\* targets as one rule names them: separated by space, backslash, newline,
\* space
RECURSIVE JoinTargets(_)
JoinTargets(targets) ==
    IF Len(targets) = 1 THEN targets[1]
    ELSE targets[1] \o <<32, 92, 10, 32>> \o JoinTargets(Tail(targets))

C15_InterruptedInvocationFinishes ==
    \A i \in 1..NumInv :
        (mu = "timeout" /\ forceInterrupt.inv = i)
            ~> (invocations[i].pc = "done" \/ quitClosed)

\* C16: once QuitDaemonGracefully holds daemon.mu to interrupt the active
\* invocations, none of them stays blocked: the HandleInvocation of every
\* invocation then in activeInvocations returns a response
C16_QuitReleasesActiveInvocations ==
    \A i \in 1..NumInv :
        (quitTask.pc = "interrupt" /\ i \in activeInvocations)
            ~> (invocations[i].pc = "done")

(***************************************************************************)
(* Properties of the precompiled header.                                   *)
(***************************************************************************)
\* C17: the .nocc-pch of a client is compiled into a real PCH at most once:
\* the PCH compiler succeeds at most once for it, it runs only for a session
\* that won the transition Uploaded -> PchCompiling, and a session that
\* finds the file PchCompiled compiles its object without a PCH compilation
C17_PchCompiledAtMostOnce ==
    /\ pchStats.compiled <= 1
    /\ \A s \in 1..NumPchSessions :
           pchSessions[s].pch = "exec" => pchSessions[s].wins > 0

(***************************************************************************)
(* Properties of the daemon's lifetime.                                    *)
(***************************************************************************)
\* the daemon is quitting for idleness: EnterInfiniteLoopUntilQuit has found
\* the daemon idle and calls QuitDaemonGracefully, or has called it
QuitsForIdleness == sockLoop.pc = "quit" \/ sockLoop.quitDaemonChan

\* C20: the daemon quits for idleness only with no active connection and
\* more than 15 seconds after the last connection was accepted or finished:
\* while it quits, no request is inside HandleInvocation, activeConnections
\* is 0 and lastTimeAlive is more than 15 seconds old
C20_IdleExitOnlyWhenIdle ==
    QuitsForIdleness =>
        /\ \A c \in 1..NumConns : sockConns[c] # "handling"
        /\ sockListener.activeConnections = 0
        /\ sockClock - sockListener.lastTimeAlive > IdleQuitSeconds

(***************************************************************************)
(* Properties of the local compiler.                                       *)
(***************************************************************************)
\* the requests whose local compiler process is running
LocalCompilersRunning == {i \in 1..NumLocal : localInvocations[i].pc = "running"}

\* C21: at any moment at most CompilerQueueSize local compiler processes
\* run; with CompilerQueueSize = 0 none is ever started and every request
\* that needs the local compiler is answered with exit code 1 and the
\* message that the fallback is disabled
C21_LocalCompilersThrottled ==
    /\ Cardinality(LocalCompilersRunning) <= localDaemon.CompilerQueueSize
    /\ localDaemon.CompilerQueueSize = 0 =>
           \A i \in 1..NumLocal :
               /\ localInvocations[i].pc \in {"none", "invoked", "done"}
               /\ localInvocations[i].pc = "done" =>
                      localInvocations[i].reply =
                          [ExitCode |-> 1, Stderr |-> FallbackDisabledStderr]

C21_Witness ==
    /\ localDaemon.CompilerQueueSize = 2
    /\ Cardinality(LocalCompilersRunning) = 2
    /\ \E i \in 1..NumLocal : localInvocations[i].pc = "throttle"

C21_WitnessDisabled ==
    /\ localDaemon.CompilerQueueSize = 0
    /\ \A i \in 1..NumLocal : localInvocations[i].pc = "done"

(***************************************************************************)
(* The states of a file on the worker.                                     *)
(***************************************************************************)
\* the changes of fileInClientDir.state that are meant to happen
FileStateEdges ==
    {<<fsFileStateJustCreated, fsFileStateUploading>>,
     <<fsFileStateUploading, fsFileStateUploaded>>,
     <<fsFileStateUploading, fsFileStateUploadError>>,
     <<fsFileStateUploaded, fsFileStatePchCompiling>>,
     <<fsFileStatePchCompiling, fsFileStatePchCompiled>>,
     <<fsFileStatePchCompiling, fsFileStatePchCompileError>>}

\* two more changes counted as meant: JustCreated to Uploaded, which is the
\* handler's CompareAndSwap to Uploading followed by its hard link from the
\* src cache, and the retry of a broken upload by a new session
FileStateEdgesAndRetry ==
    FileStateEdges \cup
        {<<fsFileStateJustCreated, fsFileStateUploaded>>,
         <<fsFileStateUploadError, fsFileStateUploading>>}

\* C22: the state of a file changes only along JustCreated -> Uploading,
\* Uploading -> Uploaded, Uploading -> UploadError, Uploaded -> PchCompiling,
\* PchCompiling -> PchCompiled and PchCompiling -> PchCompileError (here even
\* with the retry after UploadError allowed), whatever the interleaving of
\* session creation and upload reception
C22_FileStateChangesAlongEdges ==
    [][\A c \in DOMAIN clientFiles : \A name \in DOMAIN clientFiles[c] :
           LET before == clientFiles[c][name].state
               after == clientFiles'[c][name].state
           IN  (before # "absent" /\ after # before)
                   => <<before, after>> \in FileStateEdgesAndRetry]_vars

\* whether every file of a session is in the state Uploaded
AllFilesUploaded(session, files) ==
    \A k \in 1..Len(session.files) :
        files[session.files[k]].state = fsFileStateUploaded

\* C23: the compiler of a session is launched only when every file of the
\* session is in the state Uploaded
C23_CompilerLaunchedOnlyWhenUploaded ==
    [][\A s \in 1..NumSessions :
           sessions'[s].launches > sessions[s].launches
               => AllFilesUploaded(sessions[s], clientFiles[sessions[s].clientID])]_vars

\* C24: no readiness wake-up is lost: a registered session whose files are
\* all Uploaded gets its compilation started (or had it started), also when
\* the last upload ended between the session's loop over its files and its
\* registration
C24_ReadySessionStartsCompiling ==
    \A s \in 1..NumSessions :
        (/\ sessions[s].registered
         /\ AllFilesUploaded(sessions[s], clientFiles[sessions[s].clientID]))
            ~> (sessions[s].compilationStarted # 0)

\* a session that asked for no upload itself, whose files were brought by the
\* uploads of other sessions, and whose compiler was launched
C24_Witness ==
    \E s \in 1..NumSessions :
        /\ sessions[s].registered
        /\ sessions[s].reply = <<>>
        /\ sessions[s].launches = 1
        /\ \A k \in 1..Len(sessions[s].files) :
               clientFiles[sessions[s].clientID][sessions[s].files[k]].uploaded

(***************************************************************************)
(* The wait counters of an invocation.                                     *)
(***************************************************************************)
\* C25: the wait counters of an invocation never go negative: neither the
\* counter of wgUpload, nor the counter of wgRecv, nor waitUploads, whatever
\* the interleaving of the upload stream, ForceInterrupt and the invocation
C25_WaitCountersNeverNegative ==
    \A i \in 1..NumInv :
        /\ invocations[i].wgUpload >= 0
        /\ invocations[i].wgRecv >= 0
        /\ invocations[i].waitUploads >= 0

\* whether a step is the end of an upload that was received completely for a
\* session the worker knows and that renamed its temporary file over a file
\* of the client that was in the state Uploaded
RewritesUploadedFile(c, name) ==
    \E u \in uploads \ uploads' :
        /\ GetSession(sessions, u[1])
        /\ sessions[u[1]].clientID = c
        /\ sessions[u[1]].files[u[2] + 1] = name
        /\ clientFiles'[c][name].state = fsFileStateUploaded

\* C26: once a file is Uploaded the worker does not replace its content and
\* its state does not go back to Uploading or UploadError, also when a second
\* upload of the file, asked for by the hang detection, completes or fails
C26_UploadedFileNeverMutated ==
    [][\A c \in DOMAIN clientFiles : \A name \in DOMAIN clientFiles[c] :
           clientFiles[c][name].state = fsFileStateUploaded =>
               /\ clientFiles'[c][name].state
                      \notin {fsFileStateUploading, fsFileStateUploadError}
               /\ ~RewritesUploadedFile(c, name)]_vars

\* C27: the client's object output path is replaced only by a completely
\* received object: a step that changes the file at objOutFile of a session
\* leaves there the whole object file of that session, and a receiving that
\* failed leaves objOutFile as it was and no temp file behind
C27_ObjOutFileOnlyCompleteObject ==
    [][\A s \in 1..NumObjSessions :
           /\ objClient'.objOutFile[s] # objClient.objOutFile[s]
                  => objClient'.objOutFile[s] = ObjectOf(objSessions[s].size, s)
           /\ (objClient.done[s] = "none" /\ objClient'.done[s] = "err")
                  => /\ objClient'.objOutFile[s] = objClient.objOutFile[s]
                     /\ objClient'.fileTmp = NoTempFile]_vars

\* the places of the header chunks among the chunks sent
ObjHeaders == {i \in 1..Len(objStream.sent) : objStream.sent[i].kind = "header"}

\* the place after the last chunk that follows the header at i
ObjFrameEnd(i) ==
    LET later == {j \in ObjHeaders : j > i}
    IN  IF later = {} THEN Len(objStream.sent) + 1
        ELSE CHOOSE j \in later : \A k \in later : j <= k

RECURSIVE ObjBodyBytes(_, _)
\* the bytes of the chunks at the places from..to - 1
ObjBodyBytes(from, to) ==
    IF from >= to THEN 0
    ELSE Len(objStream.sent[from].ChunkBody) + ObjBodyBytes(from + 1, to)

\* C29: what the worker sends is, for each session taken from the ready
\* channel, one header chunk first; after the header of a failed compilation
\* comes the next header; after any other header come only body chunks of the
\* same sessionID until the next header, and their lengths sum to the
\* header's fileSize once the session is sent (never more while it is sent)
C29_HeaderThenBodyOfFileSize ==
    /\ objStream.sent # <<>> => 1 \in ObjHeaders
    /\ \A i \in ObjHeaders :
           LET header == objStream.sent[i]
               end == ObjFrameEnd(i)
               sending == /\ end = Len(objStream.sent) + 1
                          /\ objServer.pc # "wait"
           IN  /\ \A k \in (i + 1)..(end - 1) :
                      objStream.sent[k].SessionID = header.SessionID
               /\ header.CompilerExitCode # 0 => end = i + 1
               /\ header.CompilerExitCode = 0 =>
                      /\ ObjBodyBytes(i + 1, end) <= header.FileSize
                      /\ ~sending => ObjBodyBytes(i + 1, end) = header.FileSize
    /\ \A s \in objServer.closed :
           \E i \in ObjHeaders : objStream.sent[i].SessionID = s

\* two sessions are sent, one of them in more than one body chunk, the other
\* a failed compilation
C29_Witness ==
    /\ objServer.pc = "wait"
    /\ objServer.closed = 1..NumObjSessions
    /\ \E i \in ObjHeaders :
           /\ objStream.sent[i].CompilerExitCode = 0
           /\ objStream.sent[i].FileSize = MaxObjSize
           /\ ObjFrameEnd(i) > i + 2
    /\ \E i \in ObjHeaders : objStream.sent[i].CompilerExitCode # 0

\* C28: when uploading a file of invocation I has failed on the upload
\* stream, the step of runUploadStream that handles the error marks I
\* errored, releases its wait for that upload and goes on to create a new
\* upload stream; and when the new stream cannot be created the worker is
\* marked unavailable
C28_UploadFailureReleasesInvocation ==
    [][/\ (upClient.pc = "failed" /\ upClient'.pc # "failed") =>
              LET i == UpRequests[upClient.cur].invocation
              IN  /\ upInvocations'[i].err
                  /\ upInvocations'[i].wgUpload = upInvocations[i].wgUpload - 1
                  /\ upClient'.pc = "create"
       /\ (upClient.pc = "create" /\ upClient'.pc = "stopped") =>
              upRemote'.isUnavailable]_vars

RECURSIVE UpSentBody(_, _)
\* the bytes of the file of request r in the first k chunks sent, in the
\* order they were sent
UpSentBody(r, k) ==
    IF k = 0 THEN <<>>
    ELSE UpSentBody(r, k - 1) \o
             (IF upStream.sent[k].req = r
              THEN upStream.sent[k].chunk.ChunkBody ELSE <<>>)

\* the places of the chunks of request r among the chunks sent
UpChunksOf(r) == {k \in 1..Len(upStream.sent) : upStream.sent[k].req = r}

\* the requests other than r that had chunks on the stream before place k
UpFilesBefore(k) ==
    {upStream.sent[j].req : j \in {j \in 1..(k - 1) :
        /\ upStream.sent[j].stream = upStream.sent[k].stream
        /\ upStream.sent[j].req # upStream.sent[k].req}}

\* C30: every chunk the client sends has at most the size of the chunk
\* buffer and the clientID, sessionID and fileIndex of its upload request;
\* the chunks of a file carry its bytes in file order, the whole file once
\* the client waits for the confirmation; an empty file is exactly one chunk
\* of length zero and no other file has such a chunk; and a chunk of the
\* next file is sent only when one confirmation was received for each file
\* sent before on the stream, each being the worker's for that very file
C30_ChunksInOrderThenOneConfirmation ==
    /\ \A k \in 1..Len(upStream.sent) :
           LET sent == upStream.sent[k]
               req == UpRequests[sent.req]
           IN  /\ Len(sent.chunk.ChunkBody) <= UpChunkBufSize
               /\ sent.chunk.ClientID = req.clientID
               /\ sent.chunk.SessionID = req.sessionID
               /\ sent.chunk.FileIndex = req.fileIndex
               /\ Cardinality(UpFilesBefore(k)) = sent.confirmed
    /\ \A r \in 1..Len(UpRequests) :
           LET body == UpSentBody(r, Len(upStream.sent))
               file == UpFileOf(r, upFiles[r])
               allSent == \/ upClient.cur = r /\ upClient.pc = "confirm"
                          \/ \E j \in 1..Len(upClient.acks) : upClient.acks[j][1] = r
           IN  /\ Len(body) <= Len(file)
               /\ body = SubSeq(file, 1, Len(body))
               /\ upFiles[r] = 0 => Cardinality(UpChunksOf(r)) <= 1
               /\ upFiles[r] > 0 =>
                      \A k \in UpChunksOf(r) : upStream.sent[k].chunk.ChunkBody # <<>>
               /\ allSent => /\ body = file
                             /\ upFiles[r] = 0 => Cardinality(UpChunksOf(r)) = 1
    /\ \A j \in 1..Len(upClient.acks) :
           upClient.acks[j][2] = UpFileOf(upClient.acks[j][1], upFiles[upClient.acks[j][1]])

\* an empty file and a file of more than one chunk were uploaded one after
\* the other on one stream, each confirmed
C30_Witness ==
    /\ Len(upClient.acks) = 2
    /\ upClient.pc = "monitor"
    /\ \E r \in 1..Len(UpRequests) : upFiles[r] = 0
    /\ \E r \in 1..Len(UpRequests) :
           /\ upFiles[r] = MaxUpSize
           /\ Cardinality(UpChunksOf(r)) >= 2

\* a registered session that waits on a PCH whose compilation failed
PchFailedFor(s) ==
    /\ pchFile.state = fsFileStatePchCompileError
    /\ pchSessions[s].pc = "registered"
    /\ pchSessions[s].pushes = 0

\* C31: when the compilation of the PCH has failed (the state of the
\* .nocc-pch is PchCompileError), every session of the client that waits on
\* it is eventually sent to the daemon as failed, its own compiler never
\* launched
C31_PchFailureFailsWaitingSessions ==
    \A s \in 1..NumPchSessions :
        PchFailedFor(s) ~> (/\ pchSessions[s].pc = "closed"
                            /\ pchSessions[s].launches = 0)

\* C32: an object is stored in the object cache only if its compilation
\* exited with code 0 and produced neither stdout nor stderr: a step of
\* LaunchCompilerWhenPossible that adds a key to the object cache is the end
\* of such a compilation
C32_OnlyCleanObjectsCached ==
    [][\A s \in 1..NumSessions :
           (/\ sessions'[s].launches > sessions[s].launches
            /\ objFileCache' # objFileCache)
               => /\ sessions'[s].compilerExitCode = 0
                  /\ sessions'[s].compilerStdout = ""
                  /\ sessions'[s].compilerStderr = ""]_vars

\* the same for the exit code alone
ObjectsOfFailedCompilationsNotCached ==
    [][\A s \in 1..NumSessions :
           (/\ sessions'[s].launches > sessions[s].launches
            /\ objFileCache' # objFileCache)
               => sessions'[s].compilerExitCode = 0]_vars

\* C33: after a worker became unavailable, the reconnections begin
\* FirstReconnectDelay after that and then ReconnectDelay after the return of
\* the one before, none later than RestartDelay after the worker became
\* unavailable; when that time has passed without a success, no reconnection
\* is made any more and the worker stays unavailable
C33_ReconnectsThenGivesUp ==
    LET began == reconRemote.began
        ended == reconRemote.ended
        since == reconRemote.since
    IN  /\ \A k \in 1..Len(began) :
               /\ began[k] <= since + RestartDelay
               /\ began[k] = IF k = 1 THEN since + FirstReconnectDelay
                             ELSE ended[k - 1] + ReconnectDelay
        /\ reconRemote.pc # "restarting"
        /\ reconRemote.pc = "restart" =>
               /\ reconRemote.isUnavailable
               /\ ~ChanReady(reconRemote.restarttimeout, reconClock + MaxReconClock)
        /\ (reconRemote.pc = "reconnect" /\ reconClock > since + RestartDelay) =>
               ~ChanReady(reconRemote.timeout, reconClock)
        /\ (reconRemote.isUnavailable /\ reconRemote.pc = "returned") =>
               reconRemote.quitDaemonChan

\* the worker was not reached by several reconnections, the 5 minutes have
\* passed and the goroutine is in its second loop
C33_Witness ==
    /\ reconRemote.pc = "restart"
    /\ ~reconRemote.quitDaemonChan
    /\ Len(reconRemote.began) >= 3
    /\ reconClock > reconRemote.since + RestartDelay + ReconnectDelay

\* C34: a worker has at any time at most one goroutine in the monitor loop
\* of its upload stream and at most one in the monitor loop of its receive
\* stream
C34_OneTaskPerStream ==
    \A kind \in StreamKinds : RunningTasks(taskStreams[kind]) <= 1

\* C35: every session is pushed to the ready channel of its client at most
\* once, also a session that fails because its PCH is in state
\* PchCompileError while further sweeps of its client run
C35_SessionPushedAtMostOnce ==
    \A s \in 1..NumPchSessions : pchSessions[s].pushes <= 1

\* C36: chanDisconnected of a Client is closed at most once, whatever the
\* interleaving of StopClient calls, StartClient with a known clientID, the
\* purge of inactive clients and the server shutdown
C36_ChanDisconnectedClosedOnce ==
    \A c \in ClientInstances : cliClosed[c] <= 1

\* two sessions whose requests are equal except for the file at one place
\* of RequiredFiles (and RequiredPchFile, when it is that file)
KeyDifferOnlyAt(a, b, i) ==
    /\ a.Compiler = b.Compiler /\ a.CompilerArgs = b.CompilerArgs
    /\ a.InputFile = b.InputFile
    /\ Len(a.RequiredFiles) = Len(b.RequiredFiles)
    /\ i \in 1..Len(a.RequiredFiles)
    /\ \A j \in 1..Len(a.RequiredFiles) :
           j # i => a.RequiredFiles[j] = b.RequiredFiles[j]
    /\ a.RequiredFiles[i].FileName = b.RequiredFiles[i].FileName
    /\ a.RequiredFiles[i].fileSHA256 # b.RequiredFiles[i].fileSHA256

\* C37: two sessions equal in everything except the sha256 of one
\* dependency, the PCH sidecar included, get different object-cache keys
C37_KeyChangesWithAnyDependency ==
    \A s, t \in 1..NumKeySessions :
        (/\ keySessions[s] # <<>> /\ keySessions[t] # <<>>
         /\ \E i \in 1..3 : KeyDifferOnlyAt(keyRequests[s], keyRequests[t], i))
            => keySessions[s].objCacheKey # keySessions[t].objCacheKey

\* the same for the dependencies other than the PCH sidecar
KeyChangesWithHeaderOrSource ==
    \A s, t \in 1..NumKeySessions :
        (/\ keySessions[s] # <<>> /\ keySessions[t] # <<>>
         /\ keyRequests[s].RequiredPchFile = keyRequests[t].RequiredPchFile
         /\ \E i \in 1..3 : KeyDifferOnlyAt(keyRequests[s], keyRequests[t], i))
            => keySessions[s].objCacheKey # keySessions[t].objCacheKey

\* C38: once chanDisconnected of a client is closed, the handler of its
\* receive stream returns, and every task that is in
\* PushToClientReadyChannel for a session of the client returns
C38_DisconnectedClientReleasesTasks ==
    /\ rdyClient.disconnected ~> (rdyTasks.handler.pc = "returned")
    /\ \A s \in 1..NumRdySessions :
           (rdyClient.disconnected /\ rdyTasks.pushers[s] = "pushing")
               ~> (rdyTasks.pushers[s] \in {"pushed", "dropped"})

\* the client is gone, the handler has returned, chanReadySessions is full
\* and a task has returned from PushToClientReadyChannel without pushing
C38_Witness ==
    /\ rdyClient.disconnected
    /\ rdyTasks.handler.pc = "returned"
    /\ Len(rdyClient.chanReadySessions) = ReadyChanCap
    /\ \E s \in 1..NumRdySessions : rdyTasks.pushers[s] = "dropped"

\* C39: when the daemon has the response of a remotely compiled invocation
\* that asked for a dependency file, the dependency file is written
C39_DepFileWrittenBeforeResponse ==
    (/\ hPc = "replied"
     /\ hRemote.depFile # "none"
     /\ ~hRemote.err /\ hLocal.runs = 0
     /\ hReply = hRemote.result)
        => (hRemote.depFile = "saved" /\ hDepFile # NoDepFile)

\* C40: parsing ends with a classification and reads no argument past the
\* end of the command line; a flag whose value is missing and a second
\* source file give invokedUnsupported with err set, and the invocation is
\* not compiled remotely
C40_ParsingNeverReadsPastTheEnd ==
    hPc # "accepted" =>
        /\ ~hInvocation.panic
        /\ hPc # "crashed"
        /\ hReq.cmdLine \in NoValueCmdLines \cup {TwoSourcesCmdLine} =>
               /\ hInvocation.err # ""
               /\ hInvocation.invokeType = invokedUnsupported
               /\ hRemote.chosen = -1

\* the same for the flags that parseArgFile reads, when they are the last
\* argument, and for the second source file
LastFlagIsUnsupported ==
    (hPc # "accepted"
        /\ hReq.cmdLine \in {<<ArgC, RelFoo, flag>> : flag \in ValueFlags \ {ArgX}}
                                \cup {TwoSourcesCmdLine}) =>
            /\ ~hInvocation.panic
            /\ hInvocation.err # ""
            /\ hInvocation.invokeType = invokedUnsupported
            /\ hRemote.chosen = -1

=============================================================================
